---- MODULE Spec2Model ----
(***************************************************************************)
(* Verification model of the clause segmentation engine of the Lawyerless  *)
(* contract analyzer (backend/app/services/clause_segmenter.py and         *)
(* backend/app/services/advanced_clause_extractor.py).                     *)
(*                                                                         *)
(* Texts are sequences of one-character strings.  Offsets are 0-based as   *)
(* in the Python source: the character at offset p of t is t[p + 1].       *)
(***************************************************************************)
EXTENDS Integers, Sequences, FiniteSets, TLC

VARIABLES
    full_text,       \* extraction_result.full_text
    document_id,     \* extraction_result.document_id
    pc,              \* position of segment_clauses
    clause_matches,  \* the boundaries returned by _detect_clause_boundaries
    clauses,         \* the list segment_clauses returns
    stages,          \* the stages segment_clauses has run, in order
    resolver,        \* a call of _remove_overlapping_matches on a given list
    norm,            \* normalize_text applied once and twice to a text
    idgen,           \* two calls of _generate_clause_id
    coord,           \* the two coordinate estimators on one span
    tiers,           \* a call of DoclingProcessor._extract_clauses_with_docling
    analyzer,        \* a call of analyze_single_clause or _run_with_retry
    batch,           \* a call of ContractAnalyzer._analyze_clauses_batch
    pdf,             \* a call of PDFProcessor.extract_text_with_coordinates
    adv,             \* a call of AdvancedClauseExtractor.extract_clauses_from_text
    api              \* the stores of the API and the requests under way

segVars == <<full_text, document_id, pc, clause_matches, clauses, stages>>
serviceVars == <<tiers, analyzer, batch, pdf, adv, api>>
vars == <<full_text, document_id, pc, clause_matches, clauses, stages,
          resolver, norm, idgen, coord, serviceVars>>

\* value of a variable that belongs to an operation not under way
Idle == [pc |-> "idle"]

\* no call of the Docling processor, the analyzer, the PDF processor, the
\* advanced extractor or the API is under way
ServicesIdle ==
    /\ tiers = Idle /\ analyzer = Idle /\ batch = Idle /\ pdf = Idle
    /\ adv = Idle /\ api = Idle

(***************************************************************************)
(* Characters and Python string primitives                                 *)
(***************************************************************************)
NL == "\n"
SP == " "
CR == "\r"
NBSP == "~"   \* stands for the code point U+00A0

\* Python's \s and str.strip() whitespace, restricted to the characters used.
IsWs(c) == c \in {SP, NL, CR, "\t", NBSP}

IsDigit(c) == c \in {"0", "1", "2", "3", "4", "5", "6", "7", "8", "9"}

\* [-–—] of the boundary patterns
IsDash(c) == c \in {"-"}

\* [A-Z...a-z...] of the title classes (IGNORECASE), restricted to the
\* letters that occur in the texts of the model
IsLetter(c) == c \in {"a"}

At(t, p) == t[p + 1]

\* t[a:b] for 0 <= a, clipped like a Python slice
Slice(t, a, b) ==
    LET hi == IF b > Len(t) THEN Len(t) ELSE b
    IN  IF a >= hi THEN <<>> ELSE SubSeq(t, a + 1, hi)

RECURSIVE FirstIdx(_, _, _)
\* the least i in lo..hi-1 with P(i), hi when there is none (a scan of the
\* text from lo on, written by halving so that long texts do not nest deeply)
FirstIdx(P(_), lo, hi) ==
    IF lo >= hi THEN hi
    ELSE IF hi = lo + 1 THEN (IF P(lo) THEN lo ELSE hi)
    ELSE LET mid == (lo + hi) \div 2
             l == FirstIdx(P, lo, mid)
         IN  IF l < mid THEN l ELSE FirstIdx(P, mid, hi)

\* offset of the first non-whitespace character at or after p (len if none)
SkipWs(t, p) == FirstIdx(LAMBDA i : ~IsWs(At(t, i)), p, Len(t))

SkipDigits(t, p) == FirstIdx(LAMBDA i : ~IsDigit(At(t, i)), p, Len(t))

\* offset of the first "\n" or "\r" at or after p (len if none): [^\r\n]*
SkipToNewline(t, p) == FirstIdx(LAMBDA i : At(t, i) \in {NL, CR}, p, Len(t))

\* length of t[:n] after removing trailing whitespace
RStripLen(t, n) == n - FirstIdx(LAMBDA j : ~IsWs(t[n - j]), 0, n)

\* str.strip()
strip(t) == Slice(t, SkipWs(t, 0), RStripLen(t, Len(t)))

\* str.rstrip()
rstrip(t) == Slice(t, 0, RStripLen(t, Len(t)))

\* str.startswith(prefix)
startswith(t, prefix) ==
    Len(prefix) <= Len(t) /\ SubSeq(t, 1, Len(prefix)) = prefix

RECURSIVE SplitFrom(_, _, _)
\* str.split(sep) for a one-character separator: the fields of t from
\* offset p on
SplitFrom(t, sep, p) ==
    LET e == FirstIdx(LAMBDA i : At(t, i) = sep, p, Len(t))
    IN  IF e >= Len(t) THEN <<Slice(t, p, Len(t))>>
        ELSE <<Slice(t, p, e)>> \o SplitFrom(t, sep, e + 1)

split(t, sep) == SplitFrom(t, sep, 0)

RECURSIVE SumLineLens(_, _)
\* sum(len(line) + 1 for line in lines[:n])
SumLineLens(lines, n) ==
    IF n = 0 THEN 0 ELSE SumLineLens(lines, n - 1) + Len(lines[n]) + 1

(***************************************************************************)
(* ClauseMatch and the boundary patterns (clause_segmenter.py)             *)
(***************************************************************************)
\* Python's None; distinct from every text, comparable with texts
None == <<"None">>

\* confidences of the source (0.9, 0.5, ...) in hundredths
ConfNumbered == 90
ConfParagrafo == 60
ConfLetter == 50

\* len(number.split('.'))
RECURSIVE CountDots(_, _)
CountDots(s, n) ==
    IF n = 0 THEN 0 ELSE CountDots(s, n - 1) + (IF s[n] = "." THEN 1 ELSE 0)

\* a variant that puts single numbers at level 0
calculate_hierarchical_level_zero(number, pattern_type) ==
    IF number = None \/ number = <<>>
    THEN CASE pattern_type = "paragraph" -> 2
           [] pattern_type = "letter" -> 3
           [] OTHER -> 1
    ELSE IF CountDots(number, Len(number)) > 0
         THEN CountDots(number, Len(number)) + 1
         ELSE 0

\* _calculate_hierarchical_level(number, pattern_type)
calculate_hierarchical_level(number, pattern_type) ==
    IF number = None \/ number = <<>>
    THEN CASE pattern_type = "paragraph" -> 2
           [] pattern_type = "letter" -> 3
           [] OTHER -> 1
    ELSE IF CountDots(number, Len(number)) > 0
         THEN CountDots(number, Len(number)) + 1
         ELSE 1

\* ClauseMatch(start_pos, end_pos, text, title, number, level, pattern_type,
\* confidence); the text field (group 0) is text[start_pos:end_pos]
ClauseMatch(start_pos, end_pos, title, number, level, pattern_type, confidence) ==
    [start_pos |-> start_pos, end_pos |-> end_pos, title |-> title,
     number |-> number, level |-> level, pattern_type |-> pattern_type,
     confidence |-> confidence]

\* (?:^|\n) under re.MULTILINE: a match may begin at offset p
LineAnchor(t, p) ==
    p <= Len(t) /\ (p = 0 \/ At(t, p - 1) = NL \/ (p < Len(t) /\ At(t, p) = NL))

RECURSIVE NumberEnd(_, _)
\* end of \d+(?:\.\d+)* for a number whose first digit run ends at p
NumberEnd(t, p) ==
    IF p + 1 < Len(t) /\ At(t, p) = "." /\ IsDigit(At(t, p + 1))
    THEN NumberEnd(t, SkipDigits(t, p + 1))
    ELSE p

\* numbered_pattern:
\*   (?:^|\n)\s*(\d+(?:\.\d+)*)\s*\.?\s*[-–—]?\s*([^\r\n]*)
\* matched at offset p: <<match>>, or <<>> when it does not match there.
\* Every part after the number is optional and greedy.
numbered_match_at(t, p) ==
    LET q == SkipWs(t, p)
    IN  IF ~(LineAnchor(t, p) /\ q < Len(t) /\ IsDigit(At(t, q))) THEN <<>>
        ELSE
        LET r  == NumberEnd(t, SkipDigits(t, q))
            r1 == SkipWs(t, r)
            r2 == IF r1 < Len(t) /\ At(t, r1) = "." THEN r1 + 1 ELSE r1
            r3 == SkipWs(t, r2)
            r4 == IF r3 < Len(t) /\ IsDash(At(t, r3)) THEN r3 + 1 ELSE r3
            r5 == SkipWs(t, r4)
            e  == SkipToNewline(t, r5)
            number == Slice(t, q, r)
            group2 == Slice(t, r5, e)
        IN  <<ClauseMatch(p, e,
                          IF group2 # <<>> THEN strip(group2) ELSE None,
                          number,
                          CountDots(number, Len(number)) + 1,
                          "numbered", ConfNumbered)>>

\* the lazy class [letters\s]{0,100}? followed by (?:\n|$): offset of the
\* terminator reached from p, or -1 when a character outside the class or
\* the limit of 100 characters comes first
TitleEnd(t, p) ==
    LET y == FirstIdx(LAMBDA i : At(t, i) = NL
                                 \/ ~(IsLetter(At(t, i)) \/ IsWs(At(t, i))),
                      p, Len(t))
    IN  IF y < Len(t) /\ At(t, y) # NL THEN -1
        ELSE IF y - p > 100 THEN -1
        ELSE y

\* letter_pattern:
\*   (?:^|\n)\s*([a-z])\)\s*([A-Z...][A-Z...a-z...\s]{0,100}?)(?:\n|$)
letter_match_at(t, p) ==
    LET q == SkipWs(t, p)
    IN  IF ~(LineAnchor(t, p) /\ q + 1 < Len(t) /\ IsLetter(At(t, q))
             /\ At(t, q + 1) = ")") THEN <<>>
        ELSE
        LET r == SkipWs(t, q + 2)
        IN  IF ~(r < Len(t) /\ IsLetter(At(t, r))) THEN <<>>
            ELSE
            LET x == TitleEnd(t, r + 1)
            IN  IF x = -1 THEN <<>>
                ELSE
                LET number == Slice(t, q, q + 1)
                IN  <<ClauseMatch(p, IF x < Len(t) THEN x + 1 ELSE x,
                                  strip(Slice(t, r, x)),
                                  number,
                                  calculate_hierarchical_level(number, "letter"),
                                  "letter", ConfLetter)>>

\* the paragraph sign of (?:PARÁGRAFO|Parágrafo|§) and the ordinal marks [ªº]
IsParagraphSign(c) == c \in {"§"}
IsOrdinal(c) == c \in {"ª", "º"}

\* paragrafo_pattern:
\*   (?:^|\n)\s*(?:PARÁGRAFO|Parágrafo|§)\s*(\d+(?:\.\d+)*)[ªº]?\s*[-–—]?\s*
\*   ([A-Z...][A-Z...a-z...\s]{0,100}?)(?:\n|$)
\* for a text that writes the keyword as §
paragrafo_match_at(t, p) ==
    LET q == SkipWs(t, p)
    IN  IF ~(LineAnchor(t, p) /\ q < Len(t) /\ IsParagraphSign(At(t, q))) THEN <<>>
        ELSE
        LET d == SkipWs(t, q + 1)
        IN  IF ~(d < Len(t) /\ IsDigit(At(t, d))) THEN <<>>
            ELSE
            LET r  == NumberEnd(t, SkipDigits(t, d))
                r1 == IF r < Len(t) /\ IsOrdinal(At(t, r)) THEN r + 1 ELSE r
                r2 == SkipWs(t, r1)
                r3 == IF r2 < Len(t) /\ IsDash(At(t, r2)) THEN r2 + 1 ELSE r2
                r4 == SkipWs(t, r3)
            IN  IF ~(r4 < Len(t) /\ IsLetter(At(t, r4))) THEN <<>>
                ELSE
                LET x == TitleEnd(t, r4 + 1)
                IN  IF x = -1 THEN <<>>
                    ELSE
                    LET number == Slice(t, d, r)
                    IN  <<ClauseMatch(p, IF x < Len(t) THEN x + 1 ELSE x,
                                      strip(Slice(t, r4, x)),
                                      number,
                                      calculate_hierarchical_level(number, "paragraph"),
                                      "paragrafo", ConfParagrafo)>>

RECURSIVE finditer(_, _, _)
\* pattern.finditer(text) from offset p on: the leftmost non-overlapping
\* matches in order; all matches of the patterns are non-empty
finditer(match_at(_, _), t, p) ==
    LET q == FirstIdx(LAMBDA i : match_at(t, i) # <<>>, p, Len(t) + 1)
    IN  IF q > Len(t) THEN <<>>
        ELSE LET m == match_at(t, q)[1]
             IN  <<m>> \o finditer(match_at, t, m.end_pos)

(***************************************************************************)
(* Conflict resolution: ClauseSegmenter._remove_overlapping_matches        *)
(***************************************************************************)
\* the sort key (m.start_pos, -m.confidence) of one match before another
KeyLess(a, b) ==
    \/ a.start_pos < b.start_pos
    \/ (a.start_pos = b.start_pos /\ a.confidence > b.confidence)

\* position at which x enters an already sorted list: behind every element
\* whose key is not greater (list.sort is stable)
InsertPos(x, sorted) ==
    FirstIdx(LAMBDA i : KeyLess(x, sorted[i]), 1, Len(sorted) + 1)

RECURSIVE SortByStartConfidence(_, _)
\* matches.sort(key=lambda m: (m.start_pos, -m.confidence)), first n elements
SortByStartConfidence(matches, n) ==
    IF n = 0 THEN <<>>
    ELSE LET sorted == SortByStartConfidence(matches, n - 1)
             k == InsertPos(matches[n], sorted)
         IN  SubSeq(sorted, 1, k - 1) \o <<matches[n]>>
             \o SubSeq(sorted, k, Len(sorted))

\* match.start_pos < existing.end_pos and match.end_pos > existing.start_pos
Overlaps(a, b) == a.start_pos < b.end_pos /\ a.end_pos > b.start_pos

RemoveAt(seq, k) == SubSeq(seq, 1, k - 1) \o SubSeq(seq, k + 1, Len(seq))

\* a variant of the loop body that replaces the accepted match also when
\* the new one has the same confidence
ResolveStep_equal(filtered, match) ==
    LET k == FirstIdx(LAMBDA i : Overlaps(match, filtered[i]), 1, Len(filtered) + 1)
    IN  IF k > Len(filtered) THEN Append(filtered, match)
        ELSE IF match.confidence >= filtered[k].confidence
             THEN Append(RemoveAt(filtered, k), match)
             ELSE filtered

\* a variant of the loop body that replaces the accepted match when the
\* new one has the lower confidence
ResolveStep_lower(filtered, match) ==
    LET k == FirstIdx(LAMBDA i : Overlaps(match, filtered[i]), 1, Len(filtered) + 1)
    IN  IF k > Len(filtered) THEN Append(filtered, match)
        ELSE IF match.confidence < filtered[k].confidence
             THEN Append(RemoveAt(filtered, k), match)
             ELSE filtered

\* a variant of the loop body that never sets overlaps = True
ResolveStep_keep(filtered, match) ==
    LET k == FirstIdx(LAMBDA i : Overlaps(match, filtered[i]), 1, Len(filtered) + 1)
    IN  IF k > Len(filtered) THEN Append(filtered, match)
        ELSE IF match.confidence > filtered[k].confidence
             THEN Append(RemoveAt(filtered, k), match)
             ELSE Append(filtered, match)

\* one iteration of the loop over the sorted matches (lines 391-408): the
\* inner loop stops at the first accepted match that overlaps
ResolveStep(filtered, match) ==
    LET k == FirstIdx(LAMBDA i : Overlaps(match, filtered[i]), 1, Len(filtered) + 1)
    IN  IF k > Len(filtered) THEN Append(filtered, match)
        ELSE IF match.confidence > filtered[k].confidence
             THEN Append(RemoveAt(filtered, k), match)
             ELSE filtered

RECURSIVE ResolveFrom(_, _)
ResolveFrom(sorted, n) ==
    IF n = 0 THEN <<>> ELSE ResolveStep(ResolveFrom(sorted, n - 1), sorted[n])

remove_overlapping_matches(matches) ==
    LET sorted == SortByStartConfidence(matches, Len(matches))
    IN  ResolveFrom(sorted, Len(sorted))

(***************************************************************************)
(* ClauseSegmenter._detect_clause_boundaries                               *)
(***************************************************************************)
\* The texts of the model are written with the characters of Pieces, over
\* which only numbered_pattern, paragrafo_pattern and letter_pattern can
\* match: clausula_pattern, secao_pattern and artigo_pattern need a keyword
\* and roman_pattern a line that begins with one of the letters IVXLCDM.
detect_clause_boundaries(text) ==
    remove_overlapping_matches(
        finditer(numbered_match_at, text, 0)
        \o finditer(paragrafo_match_at, text, 0)
        \o finditer(letter_match_at, text, 0))

\* matches.sort(key=lambda m: m.start_pos) of segment_clauses (stable)
StartLess(a, b) == a.start_pos < b.start_pos

RECURSIVE SortByStart(_, _)
SortByStart(matches, n) ==
    IF n = 0 THEN <<>>
    ELSE LET sorted == SortByStart(matches, n - 1)
             k == FirstIdx(LAMBDA i : StartLess(matches[n], sorted[i]), 1, Len(sorted) + 1)
         IN  SubSeq(sorted, 1, k - 1) \o <<matches[n]>>
             \o SubSeq(sorted, k, Len(sorted))

(***************************************************************************)
(* Clause assembly: ClauseSegmenter._create_processed_clauses              *)
(***************************************************************************)
RECURSIVE Gather(_, _, _)
\* the concatenation of F(lo), ..., F(hi - 1)
Gather(F(_), lo, hi) ==
    IF lo >= hi THEN <<>>
    ELSE IF hi = lo + 1 THEN F(lo)
    ELSE LET mid == (lo + hi) \div 2
         IN  Gather(F, lo, mid) \o Gather(F, mid, hi)

CountNewlines(t, a, b) == Cardinality({i \in a..(b - 1) : At(t, i) = NL})

RECURSIVE CollapseNewlinesFrom(_, _)
\* re.sub(r'\n\s*\n\s*\n+', '\n\n', t) from offset p on: a whitespace run
\* that holds three or more newlines is replaced, from its first to its
\* last newline, by two newlines
CollapseNewlinesFrom(t, p) ==
    LET a == FirstIdx(LAMBDA i : At(t, i) = NL, p, Len(t))
    IN  IF a >= Len(t) THEN Slice(t, p, Len(t))
        ELSE LET e == SkipWs(t, a)
                 last == e - 1 - FirstIdx(LAMBDA j : At(t, e - 1 - j) = NL, 0, e - a)
             IN  IF CountNewlines(t, a, e) >= 3
                 THEN Slice(t, p, a) \o <<NL, NL>> \o CollapseNewlinesFrom(t, last + 1)
                 ELSE Slice(t, p, e) \o CollapseNewlinesFrom(t, e)

IsSpTab(c) == c \in {SP, "\t"}

\* re.sub(r'[ \t]+', ' ', t)
CollapseSpaces(t) ==
    Gather(LAMBDA i : IF ~IsSpTab(At(t, i)) THEN <<At(t, i)>>
                      ELSE IF i > 0 /\ IsSpTab(At(t, i - 1)) THEN <<>>
                      ELSE <<SP>>,
           0, Len(t))

\* lines 478-480
CleanClauseText(t) == CollapseSpaces(CollapseNewlinesFrom(t, 0))

\* hashlib.md5(s.encode()).hexdigest(): the digest, and the prefix of it
\* that an identifier keeps, is taken to be free of collisions and stands
\* for the string it was computed from
Md5Hex(id_string) == id_string

\* text[:200]
SampleLen == 200

\* a variant that hashes the whole clause text
generate_clause_id_whole(text, number, pattern_type, doc_id) ==
    LET content_sample == strip(text)
        number_part == IF number = None \/ number = <<>>
                       THEN <<"unnumbered">> ELSE number
        id_string == <<doc_id, "_", pattern_type, "_">> \o number_part
                     \o <<"_">> \o content_sample
    IN  <<"clause_", pattern_type, "_">> \o Md5Hex(id_string)

\* ClauseSegmenter._generate_clause_id; doc_id and the pattern type
\* are one token each of the identifier string
generate_clause_id(text, number, pattern_type, doc_id) ==
    LET content_sample == strip(Slice(text, 0, SampleLen))
        number_part == IF number = None \/ number = <<>>
                       THEN <<"unnumbered">> ELSE number
        id_string == <<doc_id, "_", pattern_type, "_">> \o number_part
                     \o <<"_">> \o content_sample
    IN  <<"clause_", pattern_type, "_">> \o Md5Hex(id_string)

\* ClauseSegmenter._create_clause_title
create_clause_title(match) ==
    LET title == IF match.title # None /\ match.title # <<>>
                 THEN strip(match.title) ELSE <<>>
        prefix == CASE match.pattern_type = "clausula" -> "CLÁUSULA"
                    [] match.pattern_type = "secao" -> "SEÇÃO"
                    [] match.pattern_type = "artigo" -> "ARTIGO"
                    [] match.pattern_type = "paragrafo" -> "PARÁGRAFO"
                    [] match.pattern_type = "numbered" -> "ITEM"
                    [] match.pattern_type = "roman" -> "SEÇÃO"
                    [] match.pattern_type = "letter" -> "ALÍNEA"
                    [] OTHER -> "CLÁUSULA"
    IN  IF match.number # None /\ match.number # <<>>
        THEN IF title # <<>>
             THEN <<prefix, " ">> \o match.number \o <<" - ">> \o title
             ELSE <<prefix, " ">> \o match.number
        ELSE IF title # <<>>
             THEN <<prefix, " - ">> \o title
             ELSE <<prefix>>

\* index (0-based) of the first line from line index `from` on whose
\* stripped text starts with number; Len(lines) when there is none
FindNumberLine(lines, number, from) ==
    FirstIdx(LAMBDA k : startswith(strip(lines[k + 1]), number), from, Len(lines))

\* the span [start_pos, end_pos) cut for matches[i] (lines 431-470),
\* i counted from 1
ClauseSpan(matches, text, i) ==
    LET match == matches[i]
        hasNext == i + 1 <= Len(matches)
        next_start == IF hasNext THEN matches[i + 1].start_pos
                      ELSE Len(text)
        lines == split(text, NL)
        idx == IF match.number # None /\ match.number # <<>>
               THEN FindNumberLine(lines, match.number, 0) ELSE Len(lines)
    IN  IF match.pattern_type = "numbered" /\ idx < Len(lines)
        THEN [start_pos |-> SumLineLens(lines, idx),
              end_pos |->
                IF ~hasNext THEN Len(text)
                ELSE LET next_match == matches[i + 1]
                         nidx == IF next_match.pattern_type = "numbered"
                                    /\ next_match.number # None
                                    /\ next_match.number # <<>>
                                 THEN FindNumberLine(lines, next_match.number, idx + 1)
                                 ELSE Len(lines)
                     IN  IF nidx < Len(lines) THEN SumLineLens(lines, nidx)
                         ELSE next_match.start_pos]
        ELSE [start_pos |-> match.start_pos, end_pos |-> next_start]

\* the ProcessedClause built for matches[i], <<>> when its text is
\* empty (line 475); start_pos and end_pos record the span that was cut
ProcessedClauseOf(matches, text, doc_id, i) ==
    LET match == matches[i]
        span == ClauseSpan(matches, text, i)
        raw == strip(Slice(text, span.start_pos, span.end_pos))
        clause_text == CleanClauseText(raw)
    IN  IF raw = <<>> THEN <<>>
        ELSE <<[clause_id |-> generate_clause_id(clause_text, match.number,
                                                 match.pattern_type, doc_id),
                text |-> clause_text,
                title |-> IF match.pattern_type = "numbered"
                             /\ match.title # None /\ match.title # <<>>
                          THEN match.number \o <<". ">> \o strip(match.title)
                          ELSE create_clause_title(match),
                level |-> match.level,
                clause_number |-> match.number,
                start_pos |-> span.start_pos,
                end_pos |-> span.end_pos]>>

create_processed_clauses(matches, text, doc_id) ==
    Gather(LAMBDA i : ProcessedClauseOf(matches, text, doc_id, i),
           1, Len(matches) + 1)

(***************************************************************************)
(* Fallbacks: _create_paragraph_based_clauses and _create_single_clause    *)
(***************************************************************************)
MinParaLen == 50

RECURSIVE SplitParagraphsFrom(_, _, _)
\* re.split(r'\n\s*\n', t): the fields of t from offset ps on, the search
\* for the next separator being at offset p.  A separator runs from a
\* newline to the last newline of the whitespace run that follows it.
SplitParagraphsFrom(t, ps, p) ==
    LET a == FirstIdx(LAMBDA i : At(t, i) = NL, p, Len(t))
    IN  IF a >= Len(t) THEN <<Slice(t, ps, Len(t))>>
        ELSE LET e == SkipWs(t, a)
                 last == e - 1 - FirstIdx(LAMBDA j : At(t, e - 1 - j) = NL, 0, e - a)
             IN  IF last > a
                 THEN <<Slice(t, ps, a)>> \o SplitParagraphsFrom(t, last + 1, last + 1)
                 ELSE SplitParagraphsFrom(t, ps, e)

\* str.lower() on the characters used
Lower(c) == IF c = "P" THEN "p" ELSE c

PaginaWord == <<"p", "á", "g", "i", "n", "a">>

\* re.match(r'^---\s*Página\s+\d+\s*---$', para) on a stripped paragraph
IsPageMarker(para) ==
    LET b == SkipWs(para, 3)
        c == b + 6
        d == SkipWs(para, c)
        e == SkipDigits(para, d)
        f == SkipWs(para, e)
    IN  /\ Slice(para, 0, 3) = <<"-", "-", "-">>
        /\ Slice(para, b, c) = <<"P", "á", "g", "i", "n", "a">>
        /\ d > c
        /\ e > d
        /\ Slice(para, f, f + 3) = <<"-", "-", "-">>
        /\ f + 3 = Len(para)

\* the filter of lines 675-680 applied to a stripped paragraph
IsValidParagraph(para) ==
    /\ Len(para) > MinParaLen
    /\ ~IsPageMarker(para)
    /\ ~startswith([k \in 1..Len(para) |-> Lower(para[k])], PaginaWord)

\* valid_paragraphs
ValidParagraphs(text) ==
    LET stripped == strip(text)
        paragraphs == SplitParagraphsFrom(stripped, 0, 0)
    IN  Gather(LAMBDA k : IF IsValidParagraph(strip(paragraphs[k]))
                          THEN <<strip(paragraphs[k])>> ELSE <<>>,
               1, Len(paragraphs) + 1)

\* full_text.find(paragraph, char_position); -1 is replaced by char_position
FindFrom(text, paragraph, char_position) ==
    LET k == FirstIdx(LAMBDA i : Slice(text, i, i + Len(paragraph)) = paragraph,
                      char_position, Len(text) + 1)
    IN  IF k > Len(text) \/ k + Len(paragraph) > Len(text)
        THEN char_position ELSE k

RECURSIVE ParagraphClausesFrom(_, _, _, _, _)
\* the loop of lines 688-716 from paragraph i (counted from 1) on
ParagraphClausesFrom(valid, text, doc_id, i, char_position) ==
    IF i > Len(valid) THEN <<>>
    ELSE LET paragraph == valid[i]
             para_start == FindFrom(text, paragraph, char_position)
             para_end == para_start + Len(paragraph)
             title == strip(Slice(paragraph, 0, 50))
                      \o (IF Len(paragraph) > 50 THEN <<"...">> ELSE <<>>)
         IN  <<[clause_id |-> <<"para_", doc_id, "_", ToString(i), "_">>
                              \o Md5Hex(Slice(paragraph, 0, 100)),
                text |-> paragraph,
                title |-> <<"Parágrafo ", ToString(i), ": ">> \o title,
                level |-> 1,
                clause_number |-> None,
                start_pos |-> para_start,
                end_pos |-> para_end]>>
             \o ParagraphClausesFrom(valid, text, doc_id, i + 1, para_end)

\* a variant that wants three valid paragraphs
create_paragraph_based_clauses_min3(text, doc_id) ==
    LET valid == ValidParagraphs(text)
    IN  IF Len(valid) <= 2 THEN <<>>
        ELSE ParagraphClausesFrom(valid, text, doc_id, 1, 0)

create_paragraph_based_clauses(text, doc_id) ==
    LET valid == ValidParagraphs(text)
    IN  IF Len(valid) <= 1 THEN <<>>
        ELSE ParagraphClausesFrom(valid, text, doc_id, 1, 0)

create_single_clause(text, doc_id) ==
    <<[clause_id |-> <<"single_clause_", doc_id>>,
       text |-> text,
       title |-> <<"Documento Completo">>,
       level |-> 1,
       clause_number |-> None,
       start_pos |-> 0,
       end_pos |-> Len(text)]>>

(***************************************************************************)
(* ClauseSegmenter.segment_clauses as a state machine                      *)
(***************************************************************************)
\* number of pieces a document text is written with
MaxPieces == 4

\* a paragraph long enough to pass the paragraph filter
LongParagraph == [k \in 1..(MinParaLen + 1) |-> "a"]

\* a line that is an item of a lettered list
LetterItem == <<"a", ")", "a", NL>>

Pieces ==
    {<<"1">>, <<"2">>, <<".">>, <<"a">>, <<")">>, <<"§">>, <<SP>>, <<NL>>,
     LongParagraph, LetterItem}

RECURSIVE Flatten(_, _)
Flatten(ps, n) == IF n = 0 THEN <<>> ELSE Flatten(ps, n - 1) \o ps[n]

Texts ==
    {Flatten(ps, Len(ps)) : ps \in UNION {[1..k -> Pieces] : k \in 0..MaxPieces}}

DocumentIds == {"doc1"}

Init ==
    /\ full_text \in Texts
    /\ document_id \in DocumentIds
    /\ pc = "start"
    /\ clause_matches = <<>>
    /\ clauses = <<>>
    /\ stages = <<>>
    /\ resolver = Idle /\ norm = Idle /\ idgen = Idle /\ coord = Idle
    /\ ServicesIdle

\* segment_clauses is not under way
SegIdle ==
    /\ full_text = <<>>
    /\ document_id = "doc1"
    /\ pc = "idle"
    /\ clause_matches = <<>>
    /\ clauses = <<>>
    /\ stages = <<>>

\* a variant that tests full_text without strip()
CheckBlank_nostrip ==
    /\ pc = "start"
    /\ pc' = IF full_text = <<>> THEN "done" ELSE "detect"
    /\ UNCHANGED <<full_text, document_id, clause_matches, clauses, stages,
                   resolver, norm, idgen, coord,
                   serviceVars>>

\* lines 133-137: blank text returns the empty list at once
CheckBlank ==
    /\ pc = "start"
    /\ pc' = IF strip(full_text) = <<>> THEN "done" ELSE "detect"
    /\ UNCHANGED <<full_text, document_id, clause_matches, clauses, stages,
                   resolver, norm, idgen, coord,
                   serviceVars>>

\* line 143, and the branch of line 149
DetectBoundaries ==
    /\ pc = "detect"
    /\ clause_matches' = detect_clause_boundaries(full_text)
    /\ pc' = IF clause_matches' = <<>> THEN "paragraph" ELSE "structured"
    /\ stages' = Append(stages, "detect")
    /\ UNCHANGED <<full_text, document_id, clauses, resolver, norm, idgen, coord,
                   serviceVars>>

\* a variant of lines 152-158 that returns the paragraph clauses whatever
\* their number
ParagraphFallback_nosingle ==
    /\ pc = "paragraph"
    /\ clauses' = create_paragraph_based_clauses(full_text, document_id)
    /\ pc' = "done"
    /\ stages' = Append(stages, "paragraph")
    /\ UNCHANGED <<full_text, document_id, clause_matches, resolver, norm, idgen,
                   coord,
                   serviceVars>>

\* lines 152-155
ParagraphFallback ==
    /\ pc = "paragraph"
    /\ LET paragraph_clauses == create_paragraph_based_clauses(full_text, document_id)
       IN  IF Len(paragraph_clauses) > 1
           THEN clauses' = paragraph_clauses /\ pc' = "done"
           ELSE clauses' = clauses /\ pc' = "single"
    /\ stages' = Append(stages, "paragraph")
    /\ UNCHANGED <<full_text, document_id, clause_matches, resolver, norm, idgen,
                   coord,
                   serviceVars>>

\* lines 157-158
SingleClauseFallback ==
    /\ pc = "single"
    /\ clauses' = create_single_clause(full_text, document_id)
    /\ pc' = "done"
    /\ stages' = Append(stages, "single")
    /\ UNCHANGED <<full_text, document_id, clause_matches, resolver, norm, idgen,
                   coord,
                   serviceVars>>

\* lines 161-174: sort, build the clauses, drop the empty ones
StructuredSegmentation ==
    /\ pc = "structured"
    /\ clause_matches' = SortByStart(clause_matches, Len(clause_matches))
    /\ clauses' = SelectSeq(create_processed_clauses(clause_matches', full_text,
                                                     document_id),
                            LAMBDA c : strip(c.text) # <<>>)
    /\ pc' = "done"
    /\ stages' = Append(stages, "structured")
    /\ UNCHANGED <<full_text, document_id, resolver, norm, idgen, coord,
                   serviceVars>>

Next ==
    \/ CheckBlank
    \/ DetectBoundaries
    \/ ParagraphFallback
    \/ SingleClauseFallback
    \/ StructuredSegmentation

Spec == Init /\ [][Next]_vars

(***************************************************************************)
(* Properties of segment_clauses                                           *)
(***************************************************************************)
Ran(stage) == \E k \in 1..Len(stages) : stages[k] = stage

StructuredDone == pc = "done" /\ Ran("structured")

\* C1: in structured mode the spans [start_pos, end_pos) of the returned
\* clauses are pairwise non-overlapping and in strictly increasing start
\* order.
C1_SpansDisjointAndOrdered ==
    StructuredDone =>
        \A i, j \in 1..Len(clauses) :
            i < j => /\ clauses[i].start_pos < clauses[j].start_pos
                     /\ ~(clauses[i].start_pos < clauses[j].end_pos
                          /\ clauses[j].start_pos < clauses[i].end_pos)

\* C2: in structured mode every offset from the start of the first
\* surviving boundary to the end of the text lies in the span of exactly one
\* returned clause: each span ends where the next begins and the last one
\* ends at len(full_text).
C2_SpansCoverFromFirstBoundary ==
    StructuredDone =>
        /\ \A off \in clause_matches[1].start_pos..(Len(full_text) - 1) :
               Cardinality({i \in 1..Len(clauses) :
                               clauses[i].start_pos <= off
                               /\ off < clauses[i].end_pos}) = 1
        /\ \A i \in 1..(Len(clauses) - 1) :
               clauses[i].end_pos = clauses[i + 1].start_pos
        /\ clauses # <<>> => clauses[Len(clauses)].end_pos = Len(full_text)

\* C5: on non-blank text the fallback is linear: no boundary -> paragraph
\* fallback; fewer than two valid paragraphs -> single-clause fallback, which
\* returns exactly one clause titled "Documento Completo" holding the whole
\* text; no later stage runs once a stage was accepted.
C5_LinearFallback ==
    pc = "done" /\ stages # <<>> =>
        LET nvalid == Len(ValidParagraphs(full_text))
        IN  /\ stages[1] = "detect"
            /\ clause_matches = <<>> =>
                   /\ Len(stages) >= 2 /\ stages[2] = "paragraph"
                   /\ nvalid < 2 =>
                          /\ stages = <<"detect", "paragraph", "single">>
                          /\ Len(clauses) = 1
                          /\ clauses[1].title = <<"Documento Completo">>
                          /\ clauses[1].text = full_text
                   /\ nvalid >= 2 =>
                          /\ stages = <<"detect", "paragraph">>
                          /\ Len(clauses) = nvalid
            /\ clause_matches # <<>> => stages = <<"detect", "structured">>

\* one valid paragraph only: the chain reaches the single-clause fallback
C5_Witness ==
    /\ pc = "done"
    /\ stages = <<"detect", "paragraph", "single">>
    /\ Len(ValidParagraphs(full_text)) = 1
    /\ clauses[1].text = full_text

\* C6: for empty or whitespace-only text segment_clauses returns the empty
\* list and runs neither boundary detection nor a fallback stage.
C6_BlankTextReturnsEmpty ==
    strip(full_text) = <<>> /\ pc # "start" =>
        pc = "done" /\ clauses = <<>> /\ stages = <<>>

\* a whitespace-only, non-empty text has been answered
C6_Witness ==
    pc = "done" /\ full_text # <<>> /\ strip(full_text) = <<>> /\ clauses = <<>>

\* the boundaries are known: boundary detection has returned a non-empty list
BoundariesDetected == pc \in {"structured", "done"} /\ clause_matches # <<>>

\* the boundaries, by index, for which _create_processed_clauses emits a
\* clause: those whose span holds more than whitespace
EmittingBoundaries ==
    SelectSeq([i \in 1..Len(clause_matches) |-> i],
              LAMBDA i : LET span == ClauseSpan(clause_matches, full_text, i)
                         IN  strip(Slice(full_text, span.start_pos, span.end_pos))
                             # <<>>)

\* a non-empty string of digits and dots
IsDottedNumeric(number) ==
    /\ number # None /\ number # <<>>
    /\ \A k \in 1..Len(number) : IsDigit(number[k]) \/ number[k] = "."

\* the number of dot-separated components of a number
Components(number) == Len(split(number, "."))

TitlePrefix(pattern_type) ==
    CASE pattern_type = "clausula" -> "CLÁUSULA"
      [] pattern_type \in {"secao", "roman"} -> "SEÇÃO"
      [] pattern_type = "artigo" -> "ARTIGO"
      [] pattern_type = "paragrafo" -> "PARÁGRAFO"
      [] pattern_type = "numbered" -> "ITEM"
      [] pattern_type = "letter" -> "ALÍNEA"

Captured(x) == x # None /\ x # <<>>

\* "PREFIX number - title", "PREFIX number", "PREFIX - title" or "PREFIX"
PrefixedTitle(match) ==
    LET prefix == TitlePrefix(match.pattern_type)
    IN  CASE Captured(match.number) /\ Captured(match.title) ->
                <<prefix, " ">> \o match.number \o <<" - ">> \o strip(match.title)
          [] Captured(match.number) /\ ~Captured(match.title) ->
                <<prefix, " ">> \o match.number
          [] ~Captured(match.number) /\ Captured(match.title) ->
                <<prefix, " - ">> \o strip(match.title)
          [] OTHER -> <<prefix>>

\* C13: in structured mode the title of every returned clause is the
\* prefix of its pattern type combined with the captured number and title:
\* "PREFIX number - title", "PREFIX number", "PREFIX - title" or "PREFIX".
C13_TitlesCarryPrefix ==
    StructuredDone =>
        /\ Len(clauses) = Len(EmittingBoundaries)
        /\ \A i \in 1..Len(clauses) :
               clauses[i].title = PrefixedTitle(clause_matches[EmittingBoundaries[i]])

\* C20: every boundary of the letter pattern has level 3 and every
\* boundary of the paragrafo pattern whose number has no dot has level 2,
\* in the detected list and in the clauses built from it.
C20_LetterAndParagrafoLevels ==
    /\ BoundariesDetected =>
           \A k \in 1..Len(clause_matches) :
               /\ clause_matches[k].pattern_type = "letter" =>
                      clause_matches[k].level = 3
               /\ (/\ clause_matches[k].pattern_type = "paragrafo"
                   /\ Components(clause_matches[k].number) = 1) =>
                      clause_matches[k].level = 2
    /\ StructuredDone =>
           \A i \in 1..Len(clauses) :
               LET match == clause_matches[EmittingBoundaries[i]]
               IN  /\ match.pattern_type = "letter" => clauses[i].level = 3
                   /\ (/\ match.pattern_type = "paragrafo"
                       /\ Components(match.number) = 1) => clauses[i].level = 2

\* C26: for a full_text with a non-whitespace character segment_clauses
\* returns at least one clause; when boundaries are detected the structured
\* stage builds at least one clause with non-empty text, and otherwise a
\* fallback stage supplies the clauses.
C26_AtLeastOneClause ==
    (pc = "done" /\ strip(full_text) # <<>>) =>
        /\ Len(clauses) >= 1
        /\ clause_matches # <<>> =>
              /\ Ran("structured")
              /\ \E i \in 1..Len(clauses) : strip(clauses[i].text) # <<>>
        /\ clause_matches = <<>> => (Ran("paragraph") /\ ~Ran("structured"))

\* a text that begins with white space has one detected boundary, and the
\* structured stage has returned its clause
C26_Witness ==
    /\ StructuredDone
    /\ full_text # strip(full_text)
    /\ Len(clause_matches) = 1
    /\ Len(clauses) = 1
    /\ strip(clauses[1].text) # <<>>

\* C27: within one result of segment_clauses no two clauses share a
\* clause_id, the hash being injective on its input string, in structured
\* mode and in paragraph-fallback mode, also when the same clause number
\* occurs on more than one line.
C27_ClauseIdsUnique ==
    pc = "done" =>
        \A i, j \in 1..Len(clauses) :
            i # j => clauses[i].clause_id # clauses[j].clause_id

(***************************************************************************)
(* _remove_overlapping_matches on an arbitrary list of candidates          *)
(***************************************************************************)
\* number of candidates handed to the resolver, and the largest offset
MaxCands == 3
MaxPos == 3

ConfClausula == 95

\* candidates with start_pos < end_pos
Candidates ==
    {m \in {ClauseMatch(s, e, None, None, 1, "numbered", c) :
                s \in 0..(MaxPos - 1), e \in 1..MaxPos,
                c \in {ConfLetter, ConfNumbered, ConfClausula}} :
        m.start_pos < m.end_pos}

CandidateLists == UNION {[1..k -> Candidates] : k \in 0..MaxCands}

InitResolver ==
    /\ SegIdle
    /\ resolver \in {[pc |-> "call", matches |-> ms, filtered |-> <<>>,
                      idx |-> 1, evicted |-> 0, given |-> ms] :
                        ms \in CandidateLists}
    /\ norm = Idle /\ idgen = Idle /\ coord = Idle
    /\ ServicesIdle

\* lines 383-384: if not matches: return []
ResolverEmpty ==
    /\ resolver.pc = "call"
    /\ resolver.matches = <<>>
    /\ resolver' = [resolver EXCEPT !.pc = "done"]
    /\ UNCHANGED <<segVars, norm, idgen, coord, serviceVars>>

\* lines 387-389: the in-place sort
ResolverSort ==
    /\ resolver.pc = "call"
    /\ resolver.matches # <<>>
    /\ resolver' = [resolver EXCEPT
                        !.pc = "loop",
                        !.matches = SortByStartConfidence(@, Len(@))]
    /\ UNCHANGED <<segVars, norm, idgen, coord, serviceVars>>

\* lines 391-408: one iteration of the loop over the sorted matches
ResolverVisit ==
    /\ resolver.pc = "loop"
    /\ resolver.idx <= Len(resolver.matches)
    /\ LET match == resolver.matches[resolver.idx]
           filtered == ResolveStep(resolver.filtered, match)
       IN  resolver' = [resolver EXCEPT
                            !.filtered = filtered,
                            !.idx = @ + 1,
                            !.evicted = IF \E k \in 1..Len(resolver.filtered) :
                                               resolver.filtered[k] \notin
                                                   {filtered[j] : j \in 1..Len(filtered)}
                                        THEN @ + 1 ELSE @]
    /\ UNCHANGED <<segVars, norm, idgen, coord, serviceVars>>

\* line 410: return filtered
ResolverReturn ==
    /\ resolver.pc = "loop"
    /\ resolver.idx > Len(resolver.matches)
    /\ resolver' = [resolver EXCEPT !.pc = "done"]
    /\ UNCHANGED <<segVars, norm, idgen, coord, serviceVars>>

NextResolver ==
    \/ ResolverEmpty
    \/ ResolverSort
    \/ ResolverVisit
    \/ ResolverReturn

SpecResolver == InitResolver /\ [][NextResolver]_vars

(***************************************************************************)
(* Properties of _remove_overlapping_matches                               *)
(***************************************************************************)
\* C3: for candidates with start_pos < end_pos the returned list has no two
\* overlapping elements (a.start_pos < b.end_pos and b.start_pos < a.end_pos).
C3_ReturnedMatchesDisjoint ==
    resolver.pc = "done" =>
        \A i, j \in 1..Len(resolver.filtered) :
            i # j => ~(resolver.filtered[i].start_pos < resolver.filtered[j].end_pos
                       /\ resolver.filtered[j].start_pos < resolver.filtered[i].end_pos)

\* a replacement has happened and two matches are returned
C3_Witness ==
    /\ resolver.pc = "done"
    /\ resolver.evicted >= 1
    /\ Len(resolver.filtered) >= 2

\* the candidates, by index into the given list, that overlap one of S
OverlapNeighbours(given, S) ==
    S \cup {j \in 1..Len(given) : \E i \in S : Overlaps(given[i], given[j])}

RECURSIVE ClusterFrom(_, _)
ClusterFrom(given, S) ==
    LET T == OverlapNeighbours(given, S)
    IN  IF T = S THEN S ELSE ClusterFrom(given, T)

\* the cluster of transitively overlapping candidates that holds candidate i
Cluster(given, i) == ClusterFrom(given, {i})

MaxConfidence(given, S) ==
    CHOOSE c \in {given[i].confidence : i \in S} :
        \A i \in S : given[i].confidence <= c

Returned == {resolver.filtered[k] : k \in 1..Len(resolver.filtered)}

\* C4: every cluster of transitively overlapping candidates has in the
\* result a candidate of the cluster's maximum confidence; of exactly two
\* overlapping candidates with different confidences the result is the one
\* with the higher confidence alone; a candidate that overlaps no other
\* candidate is always returned.
C4_ClusterMaximumSurvives ==
    resolver.pc = "done" =>
        LET given == resolver.given
        IN  /\ \A i \in 1..Len(given) :
                   \E j \in Cluster(given, i) :
                       /\ given[j] \in Returned
                       /\ given[j].confidence = MaxConfidence(given, Cluster(given, i))
            /\ (/\ Len(given) = 2
                /\ Overlaps(given[1], given[2])
                /\ given[1].confidence # given[2].confidence)
                   => resolver.filtered =
                          <<IF given[1].confidence > given[2].confidence
                            THEN given[1] ELSE given[2]>>
            /\ \A i \in 1..Len(given) :
                   (\A j \in 1..Len(given) : j # i => ~Overlaps(given[i], given[j]))
                       => given[i] \in Returned

\* a chain of three candidates in which the first and the last do not
\* overlap has been resolved, after a replacement
C4_Witness ==
    /\ resolver.pc = "done"
    /\ Len(resolver.given) = 3
    /\ Cluster(resolver.given, 1) = {1, 2, 3}
    /\ \E i, j \in 1..3 : i # j /\ ~Overlaps(resolver.given[i], resolver.given[j])
    /\ resolver.evicted >= 1

\* the accepted matches before and after a step of the loop
Accepted == {resolver.filtered[k] : k \in 1..Len(resolver.filtered)}

AcceptedNext == {resolver'.filtered[k] : k \in 1..Len(resolver'.filtered)}

\* what a step of the loop over the sorted matches does to the candidate
\* it visits
StepRule ==
    (resolver.pc = "loop" /\ resolver.idx <= Len(resolver.matches)) =>
        LET match == resolver.matches[resolver.idx]
        IN  /\ (\E e \in Accepted :
                    Overlaps(match, e) /\ e.confidence >= match.confidence)
                   => resolver'.filtered = resolver.filtered
            /\ \A e \in Accepted :
                   (Overlaps(match, e) /\ e.confidence < match.confidence)
                       => /\ AcceptedNext = (Accepted \ {e}) \cup {match}
                          /\ resolver'.filtered[Len(resolver'.filtered)] = match

\* the list is visited in order of start ascending, then confidence
\* descending
ScanOrder ==
    resolver.pc = "loop" =>
        \A i, j \in 1..Len(resolver.matches) :
            i < j => \/ resolver.matches[i].start_pos < resolver.matches[j].start_pos
                     \/ /\ resolver.matches[i].start_pos = resolver.matches[j].start_pos
                        /\ resolver.matches[i].confidence >= resolver.matches[j].confidence

\* the outcome for two candidates alone in the input, and for two
\* candidates with the same start in any input
TieBreaks ==
    resolver.pc = "done" =>
        LET given == resolver.given
        IN  /\ (/\ Len(given) = 2
                /\ Overlaps(given[1], given[2])
                /\ given[1].confidence = given[2].confidence
                /\ given[1].start_pos # given[2].start_pos)
                   => resolver.filtered =
                          <<IF given[1].start_pos < given[2].start_pos
                            THEN given[1] ELSE given[2]>>
            /\ (/\ Len(given) = 2
                /\ given[1].start_pos = given[2].start_pos
                /\ given[1].confidence # given[2].confidence)
                   => resolver.filtered =
                          <<IF given[1].confidence > given[2].confidence
                            THEN given[1] ELSE given[2]>>
            /\ \A i, j \in 1..Len(given) :
                   (/\ given[i].start_pos = given[j].start_pos
                    /\ given[i].confidence < given[j].confidence)
                       => given[i] \notin Returned

\* C19: the candidates are visited in order of start ascending, then
\* confidence descending; in every step a candidate that overlaps an
\* accepted one of equal or higher confidence is discarded and the accepted
\* list is unchanged, and a candidate that overlaps an accepted one of
\* strictly lower confidence evicts it and is accepted. Of two overlapping
\* candidates of equal confidence alone in the input the one with the
\* smaller start is returned, and of two candidates with the same start
\* the one with the higher confidence.
C19_ScanStepRule == [][StepRule]_vars /\ []ScanOrder /\ []TieBreaks

\* three candidates have been resolved with one eviction and one discard
C19_Witness ==
    /\ resolver.pc = "done"
    /\ Len(resolver.given) = 3
    /\ Len(resolver.filtered) = 1
    /\ resolver.evicted = 1
    /\ \E i, j \in 1..3 :
           /\ i # j
           /\ resolver.given[i].confidence = resolver.given[j].confidence
           /\ resolver.given[i].start_pos # resolver.given[j].start_pos

(***************************************************************************)
(* advanced_clause_extractor.normalize_text                                *)
(***************************************************************************)
\* text.replace("\xa0", " ")
ReplaceNbsp(t) == [k \in 1..Len(t) |-> IF t[k] = NBSP THEN SP ELSE t[k]]

IsLineBreak(c) == c \in {NL, CR}

RECURSIVE SplitLinesFrom(_, _)
\* str.splitlines() from offset p on: a line ends at "\n", "\r" or "\r\n",
\* and no empty line follows the last line break
SplitLinesFrom(t, p) ==
    IF p >= Len(t) THEN <<>>
    ELSE LET b == FirstIdx(LAMBDA i : IsLineBreak(At(t, i)), p, Len(t))
         IN  IF b >= Len(t) THEN <<Slice(t, p, Len(t))>>
             ELSE LET next == IF At(t, b) = CR /\ b + 1 < Len(t) /\ At(t, b + 1) = NL
                              THEN b + 2 ELSE b + 1
                  IN  <<Slice(t, p, b)>> \o SplitLinesFrom(t, next)

splitlines(t) == SplitLinesFrom(t, 0)

RECURSIVE JoinLines(_, _)
\* "\n".join(ln.rstrip() for ln in lines), first n lines
JoinLines(lines, n) ==
    IF n = 0 THEN <<>>
    ELSE IF n = 1 THEN rstrip(lines[1])
    ELSE JoinLines(lines, n - 1) \o <<NL>> \o rstrip(lines[n])

RECURSIVE CollapseBlankLinesFrom(_, _)
\* re.sub(r"\n{3,}", "\n\n", t) from offset p on
CollapseBlankLinesFrom(t, p) ==
    LET a == FirstIdx(LAMBDA i : At(t, i) = NL, p, Len(t))
    IN  IF a >= Len(t) THEN Slice(t, p, Len(t))
        ELSE LET e == FirstIdx(LAMBDA i : At(t, i) # NL, a, Len(t))
             IN  IF e - a >= 3
                 THEN Slice(t, p, a) \o <<NL, NL>> \o CollapseBlankLinesFrom(t, e)
                 ELSE Slice(t, p, e) \o CollapseBlankLinesFrom(t, e)

normalize_text(t) ==
    LET lines == splitlines(ReplaceNbsp(t))
    IN  CollapseBlankLinesFrom(JoinLines(lines, Len(lines)), 0)

\* length of the texts handed to normalize_text
MaxNormLen == 4

NormAlphabet == {"a", SP, NL, CR, NBSP}

NormTexts == UNION {[1..k -> NormAlphabet] : k \in 0..MaxNormLen}

InitNormalize ==
    /\ SegIdle
    /\ norm \in {[pc |-> "call", text |-> t, once |-> <<>>, twice |-> <<>>] :
                    t \in NormTexts}
    /\ resolver = Idle /\ idgen = Idle /\ coord = Idle
    /\ ServicesIdle

\* normalize_text(t)
NormalizeOnce ==
    /\ norm.pc = "call"
    /\ norm' = [norm EXCEPT !.pc = "once", !.once = normalize_text(norm.text)]
    /\ UNCHANGED <<segVars, resolver, idgen, coord, serviceVars>>

\* normalize_text applied to its own result
NormalizeTwice ==
    /\ norm.pc = "once"
    /\ norm' = [norm EXCEPT !.pc = "twice", !.twice = normalize_text(norm.once)]
    /\ UNCHANGED <<segVars, resolver, idgen, coord, serviceVars>>

NextNormalize ==
    \/ NormalizeOnce
    \/ NormalizeTwice

SpecNormalize == InitNormalize /\ [][NextNormalize]_vars

\* C8: normalize_text is idempotent, also on texts that end in newlines or
\* blank lines: normalize_text(normalize_text(t)) = normalize_text(t).
C8_NormalizeIdempotent ==
    norm.pc = "twice" => norm.twice = norm.once

(***************************************************************************)
(* Two calls of ClauseSegmenter._generate_clause_id                        *)
(***************************************************************************)
\* number of characters a text has beyond its run of "a"
MaxTail == 2

TextTails == UNION {[1..k -> {"b", SP}] : k \in 0..MaxTail}

\* texts shorter than, as long as and longer than the sample
IdTexts ==
    {[k \in 1..n |-> "a"] \o tail :
        n \in {0, SampleLen - 1, SampleLen}, tail \in TextTails}

IdCall(text, number, pattern_type, doc_id) ==
    [text |-> text, number |-> number, pattern_type |-> pattern_type,
     document_id |-> doc_id]

InitClauseId ==
    /\ SegIdle
    /\ idgen \in {[pc |-> "call", first |-> IdCall(t1, n1, "numbered", "doc1"),
                   second |-> IdCall(t2, n2, p2, d2),
                   id1 |-> <<>>, id2 |-> <<>>] :
                     t1 \in IdTexts, t2 \in IdTexts,
                     n1 \in {None, <<"1">>}, n2 \in {None, <<>>, <<"1">>},
                     p2 \in {"numbered", "letter"}, d2 \in {"doc1", "doc2"}}
    /\ resolver = Idle /\ norm = Idle /\ coord = Idle
    /\ ServicesIdle

GenerateFirst ==
    /\ idgen.pc = "call"
    /\ idgen' = [idgen EXCEPT
                    !.pc = "first",
                    !.id1 = generate_clause_id(idgen.first.text, idgen.first.number,
                                               idgen.first.pattern_type,
                                               idgen.first.document_id)]
    /\ UNCHANGED <<segVars, resolver, norm, coord, serviceVars>>

GenerateSecond ==
    /\ idgen.pc = "first"
    /\ idgen' = [idgen EXCEPT
                    !.pc = "done",
                    !.id2 = generate_clause_id(idgen.second.text, idgen.second.number,
                                               idgen.second.pattern_type,
                                               idgen.second.document_id)]
    /\ UNCHANGED <<segVars, resolver, norm, coord, serviceVars>>

NextClauseId ==
    \/ GenerateFirst
    \/ GenerateSecond

SpecClauseId == InitClauseId /\ [][NextClauseId]_vars

\* number or "unnumbered"
NumberPart(number) ==
    IF number = None \/ number = <<>> THEN <<"unnumbered">> ELSE number

SameKey(a, b) ==
    /\ a.document_id = b.document_id
    /\ a.pattern_type = b.pattern_type
    /\ NumberPart(a.number) = NumberPart(b.number)

Let(v, F(_)) == CHOOSE y \in {F(x) : x \in {v}} : TRUE

LimbBits == 15
Base == 32768
MantissaBits == 53
DivBits == 55

Pow2(k) == 2 ^ k

Limb(a, i) == IF i <= Len(a) THEN a[i] ELSE 0

BNorm(a) ==
    LET nz == {i \in 1..Len(a) : a[i] # 0}
    IN  IF nz = {} THEN <<>>
        ELSE SubSeq(a, 1, CHOOSE i \in nz : \A j \in nz : j <= i)

RECURSIVE BFromInt(_)
BFromInt(n) == IF n = 0 THEN <<>> ELSE <<n % Base>> \o BFromInt(n \div Base)

RECURSIVE BToInt(_)
BToInt(a) == IF a = <<>> THEN 0 ELSE a[1] + Base * BToInt(Tail(a))

BLess(a, b) ==
    \/ Len(a) < Len(b)
    \/ /\ Len(a) = Len(b)
       /\ \E i \in 1..Len(a) :
              a[i] < b[i] /\ \A j \in (i + 1)..Len(a) : a[j] = b[j]

RECURSIVE BAddFrom(_, _, _, _)
BAddFrom(a, b, i, carry) ==
    IF i > Len(a) /\ i > Len(b)
    THEN IF carry = 0 THEN <<>> ELSE <<carry>>
    ELSE LET sum == Limb(a, i) + Limb(b, i) + carry
         IN  <<sum % Base>> \o BAddFrom(a, b, i + 1, sum \div Base)

BAdd(a, b) == BAddFrom(a, b, 1, 0)

RECURSIVE BSubFrom(_, _, _, _)
BSubFrom(a, b, i, borrow) ==
    IF i > Len(a) THEN <<>>
    ELSE LET d == Limb(a, i) - Limb(b, i) - borrow
         IN  IF d < 0 THEN <<d + Base>> \o BSubFrom(a, b, i + 1, 1)
             ELSE <<d>> \o BSubFrom(a, b, i + 1, 0)

\* a - b for a >= b
BSub(a, b) == BNorm(BSubFrom(a, b, 1, 0))

RECURSIVE BMulSmallFrom(_, _, _, _)
BMulSmallFrom(a, k, i, carry) ==
    IF i > Len(a) THEN IF carry = 0 THEN <<>> ELSE <<carry>>
    ELSE LET prod == a[i] * k + carry
         IN  <<prod % Base>> \o BMulSmallFrom(a, k, i + 1, prod \div Base)

\* a * k for 0 <= k < Base
BMulSmall(a, k) == IF k = 0 THEN <<>> ELSE BMulSmallFrom(a, k, 1, 0)

BShlLimbs(a, n) == IF a = <<>> THEN <<>> ELSE [i \in 1..n |-> 0] \o a

RECURSIVE BMulFrom(_, _, _)
BMulFrom(a, b, i) ==
    IF i > Len(b) THEN <<>>
    ELSE BAdd(BShlLimbs(BMulSmall(a, b[i]), i - 1), BMulFrom(a, b, i + 1))

BMul(a, b) == BMulFrom(a, b, 1)

\* a * 2^k
BShl(a, k) == BShlLimbs(BMulSmall(a, Pow2(k % LimbBits)), k \div LimbBits)

\* floor(a / 2^k)
BShr(a, k) ==
    LET drop == k \div LimbBits
        r == k % LimbBits
        rest == IF drop >= Len(a) THEN <<>> ELSE SubSeq(a, drop + 1, Len(a))
    IN  BNorm([i \in 1..Len(rest) |->
                  (rest[i] \div Pow2(r))
                  + (Limb(rest, i + 1) % Pow2(r)) * Pow2(LimbBits - r)])

\* bit k of a, bit 0 the least significant
BBit(a, k) == (Limb(a, k \div LimbBits + 1) \div Pow2(k % LimbBits)) % 2

BBitLen(a) ==
    IF a = <<>> THEN 0
    ELSE LimbBits * (Len(a) - 1)
         + (CHOOSE n \in 1..LimbBits :
                Pow2(n - 1) <= a[Len(a)] /\ a[Len(a)] < Pow2(n))

FZero == [sign |-> 1, m |-> <<>>, e |-> 0]

\* the float nearest to sign * (M + f) * 2^e, where 0 <= f < 1 and sticky
\* tells whether f > 0 (M then has more than MantissaBits bits)
FRound(sign, M, e, sticky) ==
    LET len == BBitLen(M)
    IN  IF len = 0 THEN FZero
        ELSE IF len <= MantissaBits
        THEN [sign |-> sign, m |-> BShl(M, MantissaBits - len),
              e |-> e - (MantissaBits - len)]
        ELSE LET k == len - MantissaBits
                 guard == BBit(M, k - 1)
                 below == sticky \/ BShl(BShr(M, k - 1), k - 1) # M
             IN  Let(BShr(M, k), LAMBDA q :
                 Let(IF guard = 1 /\ (below \/ BBit(q, 0) = 1)
                     THEN BAdd(q, <<1>>) ELSE q, LAMBDA q2 :
                     IF BBitLen(q2) > MantissaBits
                     THEN [sign |-> sign, m |-> BShr(q2, 1), e |-> e + k + 1]
                     ELSE [sign |-> sign, m |-> q2, e |-> e + k]))

\* float(n)
FFromInt(n) ==
    IF n < 0 THEN Let(BFromInt(-n), LAMBDA M : FRound(-1, M, 0, FALSE))
    ELSE Let(BFromInt(n), LAMBDA M : FRound(1, M, 0, FALSE))

\* a * b
FMul(a, b) ==
    IF a.m = <<>> \/ b.m = <<>> THEN FZero
    ELSE Let(BMul(a.m, b.m),
             LAMBDA M : FRound(a.sign * b.sign, M, a.e + b.e, FALSE))

\* the remainder r shifted by one bit and reduced by d: <<bit, remainder>>
DivStep(r, d) ==
    LET r2 == BAdd(r, r)
    IN  IF BLess(r2, d) THEN <<0, r2>> ELSE <<1, BSub(r2, d)>>

RECURSIVE DivDigits(_, _, _)
\* <<digits, remainder>>: the next n binary digits of r / d for r < d, the
\* most significant first
DivDigits(r, d, n) ==
    IF n = 0 THEN <<<<>>, r>>
    ELSE LET step == DivStep(r, d)
             rest == DivDigits(step[2], d, n - 1)
         IN  <<<<step[1]>> \o rest[1], rest[2]>>

RECURSIVE DigitsValue(_, _, _)
\* the number written by bits[lo..hi]
DigitsValue(bits, lo, hi) ==
    IF lo > hi THEN 0 ELSE 2 * DigitsValue(bits, lo, hi - 1) + bits[hi]

\* the natural number written by a sequence of binary digits
BFromDigits(bits) ==
    LET n == Len(bits)
    IN  BNorm([i \in 1..((n + LimbBits - 1) \div LimbBits) |->
                  DigitsValue(bits,
                              IF n - i * LimbBits + 1 < 1 THEN 1
                              ELSE n - i * LimbBits + 1,
                              n - (i - 1) * LimbBits)])

ChunkBits == 11

RECURSIVE DivChunks(_, _, _)
\* <<digits, remainder>>: the next n binary digits of r / d, computed
\* ChunkBits at a time
DivChunks(r, d, n) ==
    IF n <= ChunkBits THEN DivDigits(r, d, n)
    ELSE Let(DivDigits(r, d, ChunkBits), LAMBDA first :
         Let(DivChunks(first[2], d, n - ChunkBits), LAMBDA rest :
             <<first[1] \o rest[1], rest[2]>>))

\* a / b for b # 0
FDiv(a, b) ==
    IF a.m = <<>> THEN FZero
    ELSE Let(~BLess(a.m, b.m), LAMBDA ge :
         Let(IF ge THEN BSub(a.m, b.m) ELSE a.m, LAMBDA r :
         Let(DivChunks(r, b.m, DivBits), LAMBDA qr :
         Let(BFromDigits(<<IF ge THEN 1 ELSE 0>> \o qr[1]), LAMBDA Q :
             FRound(a.sign * b.sign, Q, a.e - b.e - DivBits, qr[2] # <<>>)))))

FNeg(a) == IF a.m = <<>> THEN a ELSE [a EXCEPT !.sign = -a.sign]

\* a + b
FAdd(a, b) ==
    IF a.m = <<>> THEN b
    ELSE IF b.m = <<>> THEN a
    ELSE Let(IF a.e < b.e THEN a.e ELSE b.e, LAMBDA e :
         Let(BShl(a.m, a.e - e), LAMBDA A :
         Let(BShl(b.m, b.e - e), LAMBDA B :
             IF a.sign = b.sign
             THEN Let(BAdd(A, B), LAMBDA M : FRound(a.sign, M, e, FALSE))
             ELSE IF A = B THEN FZero
             ELSE IF BLess(B, A)
             THEN Let(BSub(A, B), LAMBDA M : FRound(a.sign, M, e, FALSE))
             ELSE Let(BSub(B, A), LAMBDA M : FRound(b.sign, M, e, FALSE)))))

\* a - b
FSub(a, b) == FAdd(a, FNeg(b))

FSign(a) == IF a.m = <<>> THEN 0 ELSE a.sign

MagLess(a, b) == a.e < b.e \/ (a.e = b.e /\ BLess(a.m, b.m))

\* a < b
FLess(a, b) ==
    IF FSign(a) # FSign(b) THEN FSign(a) < FSign(b)
    ELSE IF FSign(a) = 0 THEN FALSE
    ELSE IF FSign(a) = 1 THEN MagLess(a, b)
    ELSE MagLess(b, a)

\* a <= b
FLeq(a, b) == ~FLess(b, a)

\* min(a, b)
FMin(a, b) == IF FLess(b, a) THEN b ELSE a

\* int(a): truncation toward zero
FTrunc(a) ==
    IF a.m = <<>> THEN 0
    ELSE IF a.e >= 0 THEN a.sign * BToInt(BShl(a.m, a.e))
    ELSE a.sign * BToInt(BShr(a.m, -a.e))

IntMin(a, b) == IF b < a THEN b ELSE a

(***************************************************************************)
(* Coordinate estimation                                                   *)
(***************************************************************************)
PageWidth == 612
PageHeight == 792
Margin == 50

BoundingBox(x0, x1, top, bottom, page_number, page_height) ==
    [x0 |-> x0, x1 |-> x1, top |-> top, bottom |-> bottom,
     page_number |-> page_number, page_height |-> page_height]

\* ClauseSegmenter._estimate_clause_coordinates, with total_chars for
\* len(full_text) and total_pages for extraction_result.metadata.page_count
estimate_clause_coordinates(start_pos, end_pos, total_chars, total_pages) ==
    IF total_chars = 0 \/ total_pages = 0
    THEN BoundingBox(0, PageWidth, FZero, FFromInt(PageHeight), 0, PageHeight)
    ELSE
    Let(FFromInt(PageHeight), LAMBDA page_height :
    Let(FDiv(FFromInt(total_chars), FFromInt(total_pages)), LAMBDA chars_per_page :
    Let(FDiv(FFromInt(start_pos), chars_per_page), LAMBDA page_quotient :
    Let(IntMin(FTrunc(page_quotient), total_pages - 1), LAMBDA estimated_page :
    Let(FMul(FFromInt(estimated_page), chars_per_page), LAMBDA page_start_char :
    Let(FSub(FFromInt(start_pos), page_start_char), LAMBDA char_in_page :
    Let(IF FLess(FZero, chars_per_page) THEN FDiv(char_in_page, chars_per_page)
        ELSE FZero, LAMBDA position_ratio :
    Let(FMul(position_ratio, page_height), LAMBDA estimated_top :
    Let(FDiv(FFromInt(end_pos - start_pos), chars_per_page), LAMBDA length_ratio :
    Let(FMul(length_ratio, page_height), LAMBDA length_height :
    Let(FDiv(page_height, FFromInt(4)), LAMBDA quarter_page :
    Let(FMin(length_height, quarter_page), LAMBDA estimated_height :
    Let(FAdd(estimated_top, estimated_height), LAMBDA estimated_bottom :
        BoundingBox(Margin, PageWidth - Margin, estimated_top,
                    FMin(estimated_bottom, page_height),
                    estimated_page, PageHeight))))))))))))))

\* AdvancedClauseExtractor._estimate_coordinates; the text argument is not
\* used by the code, total_chars is end_pos
estimate_coordinates(start_pos, end_pos, estimated_pages) ==
    Let(FFromInt(PageHeight), LAMBDA page_height :
    Let(IF estimated_pages > 0
        THEN FDiv(FFromInt(end_pos), FFromInt(estimated_pages))
        ELSE FFromInt(end_pos), LAMBDA chars_per_page :
    Let(FLess(FZero, chars_per_page), LAMBDA positive :
    Let(IF positive THEN FDiv(FFromInt(start_pos), chars_per_page) ELSE FZero,
        LAMBDA page_quotient :
    Let(IF positive THEN IntMin(FTrunc(page_quotient), estimated_pages - 1) ELSE 0,
        LAMBDA page_num :
    Let(FMul(FFromInt(page_num), chars_per_page), LAMBDA page_start :
    Let(FSub(FFromInt(start_pos), page_start), LAMBDA pos_in_page :
    Let(IF positive THEN FDiv(pos_in_page, chars_per_page) ELSE FZero,
        LAMBDA y_ratio :
    Let(FMul(y_ratio, page_height), LAMBDA top :
    Let(IF positive THEN FDiv(FFromInt(end_pos - start_pos), chars_per_page)
        ELSE FZero, LAMBDA length_ratio :
    Let(FMul(length_ratio, page_height), LAMBDA length_height :
    Let(FDiv(page_height, FFromInt(3)), LAMBDA third_page :
    Let(IF positive THEN FMin(length_height, third_page) ELSE FFromInt(100),
        LAMBDA height :
    Let(FAdd(top, height), LAMBDA bottom :
        BoundingBox(Margin, PageWidth - Margin, top, FMin(bottom, page_height),
                    page_num, PageHeight)))))))))))))))

\* ClauseSegmenter._estimate_clause_coordinates raises ZeroDivisionError
\* exactly when one of its divisors is 0.0; segment_clauses has no handler
\* and lets it through
clause_coordinates_raises(total_chars, total_pages) ==
    /\ ~(total_chars = 0 \/ total_pages = 0)
    /\ \/ FFromInt(total_pages) = FZero
       \/ FDiv(FFromInt(total_chars), FFromInt(total_pages)) = FZero

\* AdvancedClauseExtractor._estimate_coordinates raises ZeroDivisionError
\* exactly when one of the divisions it reaches has divisor 0.0
coordinates_raises(end_pos, estimated_pages) ==
    \/ estimated_pages > 0 /\ FFromInt(estimated_pages) = FZero
    \/ LET chars_per_page == IF estimated_pages > 0
                             THEN FDiv(FFromInt(end_pos), FFromInt(estimated_pages))
                             ELSE FFromInt(end_pos)
       IN  FLess(FZero, chars_per_page) /\ chars_per_page = FZero

\* how ClauseSegmenter.segment_clauses ends for a clause at these offsets
segment_clauses_outcome(total_chars, total_pages) ==
    IF clause_coordinates_raises(total_chars, total_pages)
    THEN "ZeroDivisionError" ELSE "clauses"

\* how AdvancedClauseExtractor.extract_clauses_from_text ends for a section
\* at these offsets: every exception is wrapped in the extraction error
extract_clauses_from_text_outcome(end_pos, estimated_pages) ==
    IF coordinates_raises(end_pos, estimated_pages)
    THEN "AdvancedClauseExtractionError" ELSE "clauses"

\* largest text length and offset, and largest page count
MaxChars == 3
MaxPages == 3

DefaultBox == BoundingBox(0, PageWidth, FZero, FFromInt(PageHeight), 0, PageHeight)

InitCoordinates ==
    /\ SegIdle
    /\ coord \in {[pc |-> "call", total_chars |-> n, total_pages |-> p,
                   start_pos |-> a, end_pos |-> b,
                   segmenter_box |-> DefaultBox, advanced_box |-> DefaultBox,
                   segmenter_outcome |-> None, advanced_outcome |-> None] :
                     n \in 0..MaxChars, p \in (-MaxPages)..MaxPages,
                     a \in 0..MaxChars, b \in 0..MaxChars}
    /\ coord.start_pos <= coord.end_pos
    /\ resolver = Idle /\ norm = Idle /\ idgen = Idle
    /\ ServicesIdle

\* ClauseSegmenter._estimate_clause_coordinates(start_pos, end_pos,
\* full_text, extraction_result)
EstimateClauseCoordinates ==
    /\ coord.pc = "call"
    /\ coord' = [coord EXCEPT
                    !.pc = "segmenter",
                    !.segmenter_box =
                        estimate_clause_coordinates(coord.start_pos, coord.end_pos,
                                                    coord.total_chars,
                                                    coord.total_pages),
                    !.segmenter_outcome =
                        segment_clauses_outcome(coord.total_chars,
                                                coord.total_pages)]
    /\ UNCHANGED <<segVars, resolver, norm, idgen, serviceVars>>

\* AdvancedClauseExtractor._estimate_coordinates(start_pos, end_pos, text,
\* estimated_pages)
EstimateCoordinates ==
    /\ coord.pc = "segmenter"
    /\ coord' = [coord EXCEPT
                    !.pc = "done",
                    !.advanced_box =
                        estimate_coordinates(coord.start_pos, coord.end_pos,
                                             coord.total_pages),
                    !.advanced_outcome =
                        extract_clauses_from_text_outcome(coord.end_pos,
                                                          coord.total_pages)]
    /\ UNCHANGED <<segVars, resolver, norm, idgen, serviceVars>>

NextCoordinates ==
    \/ EstimateClauseCoordinates
    \/ EstimateCoordinates

SpecCoordinates == InitCoordinates /\ [][NextCoordinates]_vars

BoxInBounds(box, page_count) ==
    /\ FLeq(box.top, box.bottom)
    /\ FLeq(FZero, box.top)
    /\ FLeq(box.top, FFromInt(box.page_height))
    /\ 0 <= box.page_number
    /\ box.page_number <= page_count - 1

\* C9: for 0 <= start <= end <= text length and page count >= 1 the boxes of
\* both estimators satisfy bottom >= top, 0 <= top <= page_height and
\* 0 <= page_number <= page count - 1.
C9_BoxesInBounds ==
    (/\ coord.pc = "done"
     /\ coord.start_pos <= coord.end_pos
     /\ coord.end_pos <= coord.total_chars
     /\ coord.total_pages >= 1)
        => /\ BoxInBounds(coord.segmenter_box, coord.total_pages)
           /\ BoxInBounds(coord.advanced_box, coord.total_pages)

IsDefaultBox(box) ==
    /\ box.top = FZero
    /\ box.bottom = FFromInt(PageHeight)
    /\ box.page_number = 0

\* C10: with page count 0 or no characters both estimators return the
\* full-page default box (top 0, bottom 792, page_number 0), whatever the
\* start and end offsets.
C10_DegenerateDefaultBox ==
    (coord.pc = "done" /\ (coord.total_pages = 0 \/ coord.total_chars = 0))
        => /\ IsDefaultBox(coord.segmenter_box)
           /\ IsDefaultBox(coord.advanced_box)

\* C11: with a negative page count and a clause found in non-empty text
\* (start < end <= text length) neither engine returns a clause list: the
\* call ends in an error.
C11_NegativePagesRaise ==
    (/\ coord.pc = "done"
     /\ coord.total_pages < 0
     /\ coord.start_pos < coord.end_pos
     /\ coord.end_pos <= coord.total_chars)
        => /\ coord.segmenter_outcome # "clauses"
           /\ coord.advanced_outcome # "clauses"

(***************************************************************************)
(* Service calls outside the clause segmenter                              *)
(***************************************************************************)
segmenterSide == <<segVars, resolver, norm, idgen, coord>>

\* no operation of the clause segmenter or the advanced extractor is under way
SegmenterSideIdle ==
    SegIdle /\ resolver = Idle /\ norm = Idle /\ idgen = Idle /\ coord = Idle

(***************************************************************************)
(* DoclingProcessor._extract_clauses_with_docling (docling_processor.py)   *)
(***************************************************************************)
\* len(advanced_clauses) >= 3
AdvancedThreshold == 3

\* largest number of clauses or clause numbers a tier produces
MaxTierClauses == 3

\* the clauses a tier produced, told apart by tier and position
ClausesOf(tier, n) == [i \in 1..n |-> [tier |-> tier, index |-> i]]

\* len(content) > 10, line 397 of _extract_clause_content
MinContentLen == 10

\* lengths of the cleaned content found for a clause number: nothing left
\* (a number alone on its line), the longest content dropped, the shortest
\* content kept
ContentLens == {0, MinContentLen, MinContentLen + 1}

\* lines 394-398: the clause numbers whose content is kept
KeptContents(contents) ==
    {i \in 1..Len(contents) : contents[i] > 0 /\ contents[i] > MinContentLen}

\* Init fixes what the callees do on the given text: the advanced extractor
\* raises or returns `advanced` clauses, _identify_clause_numbers returns
\* `numbers` clause numbers, _extract_clause_content finds for each a
\* content of the length in `contents` and keeps `built` of them, and
\* _create_fallback_clauses returns at least one clause
InitTiers ==
    /\ SegmenterSideIdle
    /\ adv = Idle /\ api = Idle
    /\ analyzer = Idle /\ batch = Idle /\ pdf = Idle
    /\ \E n \in 0..MaxTierClauses :
         tiers \in {[pc |-> "tier1", advanced_raises |-> r, advanced |-> a,
                     numbers |-> n, contents |-> cs,
                     built |-> Cardinality(KeptContents(cs)),
                     fallback |-> f, ran |-> <<>>, method_used |-> "unknown",
                     method_counts |-> [advanced |-> 0, docling |-> 0, fallback |-> 0],
                     returned |-> <<>>] :
                       r \in BOOLEAN, a \in 0..MaxTierClauses,
                       cs \in [1..n -> ContentLens],
                       f \in 1..MaxTierClauses}
    /\ tiers.advanced_raises => tiers.advanced = 0

\* a variant that accepts the advanced result from one clause on
Tier1Advanced_min1 ==
    /\ tiers.pc = "tier1"
    /\ tiers' =
         IF ~tiers.advanced_raises /\ tiers.advanced >= 1
         THEN [tiers EXCEPT
                  !.pc = "done",
                  !.ran = Append(@, "advanced"),
                  !.method_counts.advanced = tiers.advanced,
                  !.method_used = "advanced",
                  !.returned = ClausesOf("advanced", tiers.advanced)]
         ELSE [tiers EXCEPT !.pc = "tier2", !.ran = Append(@, "advanced")]
    /\ UNCHANGED <<segmenterSide, adv, api, analyzer, batch, pdf>>

\* lines 216-236: the advanced extractor runs inside try/except Exception;
\* its clauses are returned when there are at least three of them
Tier1Advanced ==
    /\ tiers.pc = "tier1"
    /\ tiers' =
         IF ~tiers.advanced_raises /\ tiers.advanced >= AdvancedThreshold
         THEN [tiers EXCEPT
                  !.pc = "done",
                  !.ran = Append(@, "advanced"),
                  !.method_counts.advanced = tiers.advanced,
                  !.method_used = "advanced",
                  !.returned = ClausesOf("advanced", tiers.advanced)]
         ELSE [tiers EXCEPT !.pc = "tier2", !.ran = Append(@, "advanced")]
    /\ UNCHANGED <<segmenterSide, adv, api, analyzer, batch, pdf>>

\* lines 238-286: Docling number patterns; without a valid clause number
\* the function goes on to the paragraph fallback, otherwise it builds one
\* clause per number that has content
Tier2Docling ==
    /\ tiers.pc = "tier2"
    /\ tiers' =
         IF tiers.numbers = 0
         THEN [tiers EXCEPT !.pc = "tier3", !.ran = Append(@, "docling")]
         ELSE [tiers EXCEPT
                  !.pc = "done",
                  !.ran = Append(@, "docling"),
                  !.method_counts.docling = tiers.built,
                  !.method_used = "docling",
                  !.returned = ClausesOf("docling", tiers.built)]
    /\ UNCHANGED <<segmenterSide, adv, api, analyzer, batch, pdf>>

\* lines 246-251
Tier3Fallback ==
    /\ tiers.pc = "tier3"
    /\ tiers' = [tiers EXCEPT
                    !.pc = "done",
                    !.ran = Append(@, "fallback"),
                    !.method_counts.fallback = tiers.fallback,
                    !.method_used = "paragraph_fallback",
                    !.returned = ClausesOf("fallback", tiers.fallback)]
    /\ UNCHANGED <<segmenterSide, adv, api, analyzer, batch, pdf>>

NextTiers ==
    \/ Tier1Advanced
    \/ Tier2Docling
    \/ Tier3Fallback

SpecTiers == InitTiers /\ [][NextTiers]_vars

AdvancedAccepted == ~tiers.advanced_raises /\ tiers.advanced >= 3

C28_TierChainReturnsAClause ==
    tiers.pc = "done" =>
        /\ Len(tiers.returned) >= 1
        /\ (~AdvancedAccepted /\ tiers.built = 0) =>
              /\ tiers.method_used = "paragraph_fallback"
              /\ tiers.returned = ClausesOf("fallback", tiers.fallback)

(***************************************************************************)
(* ContractAnalyzer._run_with_retry and analyze_single_clause              *)
(* (contract_analyzer.py)                                                  *)
(***************************************************************************)
\* largest value of settings.llm_max_retries and of the max_retries argument
MaxRetries == 3

\* what one invocation of the awaited function does under wait_for: it
\* returns a result that holds a ClauseAnalysis ("analysis") or something
\* else ("other"), raises an Exception ("error"), or runs into the timeout
AttemptOutcomes == {"analysis", "other", "error", "timeout"}

Succeeds(outcome) == outcome \in {"analysis", "other"}

\* the clauses handed to analyze_single_clause
InputClauses ==
    {[clause_id |-> id, coordinates |-> box, clause_number |-> num] :
        id \in {"clause_1", "clause_2"}, box \in {"box_1"},
        num \in {None, <<"1">>}}

\* the ClauseAnalysis the model returns for a clause: identifier,
\* coordinates and number are whatever the model wrote
LlmAnalysis ==
    [kind |-> "analysis", clause_id |-> "llm_id", coordenadas |-> "llm_box",
     clausula_numero |-> <<"9">>, bandeira |-> "VERDE"]

\* _create_fallback_analysis(clause, error)
create_fallback_analysis(clause) ==
    [kind |-> "fallback", clause_id |-> clause.clause_id,
     coordenadas |-> clause.coordinates,
     clausula_numero |-> clause.clause_number, bandeira |-> "AMARELO"]

\* max_retries_arg 0 stands for a call without the max_retries argument (None)
InitAnalyzer ==
    /\ SegmenterSideIdle
    /\ adv = Idle /\ api = Idle
    /\ tiers = Idle /\ batch = Idle /\ pdf = Idle
    /\ analyzer \in {[entry |-> e, pc |-> "enter", clause |-> c,
                      self_max_retries |-> m, max_retries_arg |-> a,
                      max_retries |-> 0, attempt |-> 0, outcomes |-> <<>>,
                      sleeps |-> <<>>, retry_outcome |-> "none",
                      result |-> [kind |-> "none"]] :
                        e \in {"run_with_retry", "analyze_single_clause"},
                        c \in InputClauses, m \in 1..MaxRetries,
                        a \in 0..MaxRetries}
    /\ analyzer.entry = "analyze_single_clause" => analyzer.max_retries_arg = 0
    /\ analyzer.entry = "run_with_retry" =>
           analyzer.clause = CHOOSE c \in InputClauses : TRUE

\* a variant that always takes self.max_retries
RetryEnter_self ==
    /\ analyzer.pc = "enter"
    /\ analyzer' = [analyzer EXCEPT
                       !.pc = "loop",
                       !.max_retries = analyzer.self_max_retries]
    /\ UNCHANGED <<segmenterSide, adv, api, tiers, batch, pdf>>

\* line 568: max_retries = max_retries or self.max_retries.
\* analyze_single_clause reaches it through lines 365-401 with no argument
RetryEnter ==
    /\ analyzer.pc = "enter"
    /\ analyzer' = [analyzer EXCEPT
                       !.pc = "loop",
                       !.max_retries = IF analyzer.max_retries_arg # 0
                                       THEN analyzer.max_retries_arg
                                       ELSE analyzer.self_max_retries]
    /\ UNCHANGED <<segmenterSide, adv, api, tiers, batch, pdf>>

\* where the caller goes on when _run_with_retry returns or raises
AfterRetry(returned) ==
    IF analyzer.entry = "run_with_retry" THEN "done"
    ELSE IF returned THEN "check" ELSE "except"

\* lines 571-584: one pass of the loop body
RetryAttempt ==
    /\ analyzer.pc = "loop"
    /\ analyzer.attempt < analyzer.max_retries
    /\ \E outcome \in AttemptOutcomes :
         analyzer' =
           IF Succeeds(outcome)
           THEN [analyzer EXCEPT
                    !.outcomes = Append(@, outcome),
                    !.retry_outcome = "returned",
                    !.pc = AfterRetry(TRUE)]
           ELSE IF analyzer.attempt < analyzer.max_retries - 1
           THEN [analyzer EXCEPT
                    !.outcomes = Append(@, outcome),
                    !.pc = "backoff"]
           ELSE [analyzer EXCEPT
                    !.outcomes = Append(@, outcome),
                    !.attempt = @ + 1]
    /\ UNCHANGED <<segmenterSide, adv, api, tiers, batch, pdf>>

\* lines 579 and 584: await asyncio.sleep(2 ** attempt), then the next pass
RetryBackoff ==
    /\ analyzer.pc = "backoff"
    /\ analyzer' = [analyzer EXCEPT
                       !.sleeps = Append(@, 2 ^ analyzer.attempt),
                       !.attempt = @ + 1,
                       !.pc = "loop"]
    /\ UNCHANGED <<segmenterSide, adv, api, tiers, batch, pdf>>

\* line 586: the loop is over, raise ContractAnalysisError
RetryRaise ==
    /\ analyzer.pc = "loop"
    /\ analyzer.attempt >= analyzer.max_retries
    /\ analyzer' = [analyzer EXCEPT
                       !.retry_outcome = "raised",
                       !.pc = AfterRetry(FALSE)]
    /\ UNCHANGED <<segmenterSide, adv, api, tiers, batch, pdf>>

\* a variant that leaves the identifier and coordinates the model wrote
SingleClauseCheck_keep ==
    /\ analyzer.pc = "check"
    /\ analyzer' =
         [analyzer EXCEPT
            !.pc = "done",
            !.result =
               IF analyzer.outcomes[Len(analyzer.outcomes)] = "analysis"
               THEN LlmAnalysis
               ELSE create_fallback_analysis(analyzer.clause)]
    /\ UNCHANGED <<segmenterSide, adv, api, tiers, batch, pdf>>

\* lines 403-429: the result is unwrapped; anything but a ClauseAnalysis
\* gives the fallback analysis, a ClauseAnalysis gets the coordinates,
\* identifier and number of the clause
SingleClauseCheck ==
    /\ analyzer.pc = "check"
    /\ analyzer' =
         [analyzer EXCEPT
            !.pc = "done",
            !.result =
               IF analyzer.outcomes[Len(analyzer.outcomes)] = "analysis"
               THEN [LlmAnalysis EXCEPT
                        !.coordenadas = analyzer.clause.coordinates,
                        !.clause_id = analyzer.clause.clause_id,
                        !.clausula_numero = analyzer.clause.clause_number]
               ELSE create_fallback_analysis(analyzer.clause)]
    /\ UNCHANGED <<segmenterSide, adv, api, tiers, batch, pdf>>

\* lines 430-433: except Exception returns the fallback analysis
SingleClauseExcept ==
    /\ analyzer.pc = "except"
    /\ analyzer' = [analyzer EXCEPT
                       !.pc = "done",
                       !.result = create_fallback_analysis(analyzer.clause)]
    /\ UNCHANGED <<segmenterSide, adv, api, tiers, batch, pdf>>

NextAnalyzer ==
    \/ RetryEnter
    \/ RetryAttempt
    \/ RetryBackoff
    \/ RetryRaise
    \/ SingleClauseCheck
    \/ SingleClauseExcept

SpecAnalyzer == InitAnalyzer /\ [][NextAnalyzer]_vars

\* number of invocations of the awaited function so far
Invocations == Len(analyzer.outcomes)

Failures == {k \in 1..Invocations : ~Succeeds(analyzer.outcomes[k])}

\* C15: analyze_single_clause never raises.  When every attempt failed
\* (exception or timeout) or the result is not a ClauseAnalysis it returns
\* the fallback analysis: clause_id, coordinates and clause number of the
\* input clause, flag AMARELO.  On success the analysis carries the
\* clause_id and the coordinates of the input clause.
C15_SingleClauseNeverRaises ==
    (analyzer.pc # "idle" /\ analyzer.entry = "analyze_single_clause") =>
        /\ analyzer.pc \in {"enter", "loop", "backoff", "check", "except", "done"}
        /\ analyzer.pc = "done" =>
              /\ analyzer.result.kind \in {"analysis", "fallback"}
              /\ analyzer.result.clause_id = analyzer.clause.clause_id
              /\ analyzer.result.coordenadas = analyzer.clause.coordinates
              /\ (\/ analyzer.retry_outcome = "raised"
                  \/ analyzer.outcomes[Invocations] # "analysis") =>
                     /\ analyzer.result.kind = "fallback"
                     /\ analyzer.result.bandeira = "AMARELO"
                     /\ analyzer.result.clausula_numero
                            = analyzer.clause.clause_number
              /\ (/\ analyzer.retry_outcome = "returned"
                  /\ analyzer.outcomes[Invocations] = "analysis") =>
                     analyzer.result.kind = "analysis"

\* every attempt failed, one of them by timeout, and the fallback analysis
\* of the clause was returned
C15_Witness ==
    /\ analyzer.pc = "done"
    /\ analyzer.entry = "analyze_single_clause"
    /\ analyzer.retry_outcome = "raised"
    /\ \E k \in 1..Invocations : analyzer.outcomes[k] = "timeout"
    /\ analyzer.result = create_fallback_analysis(analyzer.clause)

\* C17: with max_retries = n >= 1 the function is invoked at most n times;
\* the first successful attempt ends the loop and its result is returned, so
\* after k < n failures and a success there were exactly k + 1 invocations;
\* when every attempt fails or times out ContractAnalysisError is raised
\* after exactly n invocations.
C17_RetryBounded ==
    (analyzer.pc \notin {"idle", "enter"} /\ analyzer.max_retries_arg >= 1) =>
        LET n == analyzer.max_retries_arg
        IN  /\ Invocations <= n
            /\ \A k \in 1..(Invocations - 1) : ~Succeeds(analyzer.outcomes[k])
            /\ analyzer.retry_outcome = "returned" =>
                  /\ Succeeds(analyzer.outcomes[Invocations])
                  /\ Invocations = Cardinality(Failures) + 1
            /\ analyzer.retry_outcome = "raised" =>
                  /\ Invocations = n
                  /\ Cardinality(Failures) = n
            /\ analyzer.pc = "done" => analyzer.retry_outcome \in {"returned", "raised"}
            /\ (Invocations >= 1 /\ Succeeds(analyzer.outcomes[Invocations])) =>
                  analyzer.retry_outcome = "returned"

\* two failures, then success at the third and last attempt
C17_Witness ==
    /\ analyzer.pc = "done"
    /\ analyzer.max_retries_arg = 3
    /\ analyzer.retry_outcome = "returned"
    /\ Invocations = 3

(***************************************************************************)
(* ContractAnalyzer._analyze_clauses_batch (contract_analyzer.py)          *)
(***************************************************************************)
\* longest list of clauses and largest batch_size
MaxBatchClauses == 3
MaxBatchSize == 3

\* what the call of analyze_single_clause for the clause at position j
\* gives to asyncio.gather(..., return_exceptions=True)
SingleClauseResult(j) ==
    IF j \in batch.raises
    THEN [kind |-> "exception", clause_id |-> batch.clauses[j], call |-> j]
    ELSE [kind |-> "analysis", clause_id |-> batch.clauses[j], call |-> j]

\* lines 472-478: an exception object becomes the fallback analysis of
\* batch[j], any other result is kept
Collected(result) ==
    IF result.kind = "exception" THEN [result EXCEPT !.kind = "fallback"]
    ELSE result

\* a variant that cuts batches of batch_size + 1 clauses
BatchPositions_wide(first) ==
    {j \in 1..Len(batch.clauses) : first < j /\ j <= first + batch.batch_size + 1}

\* positions (in the clause list) of the batch that starts behind `first`
BatchPositions(first) ==
    {j \in 1..Len(batch.clauses) : first < j /\ j <= first + batch.batch_size}

\* raises is the set of positions whose call of analyze_single_clause raises
InitBatch ==
    /\ SegmenterSideIdle
    /\ adv = Idle /\ api = Idle
    /\ tiers = Idle /\ analyzer = Idle /\ pdf = Idle
    /\ \E n \in 0..MaxBatchClauses :
         batch \in {[pc |-> "next", clauses |-> cs, batch_size |-> b,
                     raises |-> r, first |-> 0, pending |-> {},
                     completed |-> <<>>, results |-> [j \in 1..n |-> None],
                     calls |-> [j \in 1..n |-> 0],
                     analyzed_clauses |-> <<>>] :
                       cs \in [1..n -> {"clause_1", "clause_2"}],
                       b \in 1..MaxBatchSize, r \in SUBSET (1..n)}

\* lines 457-467: the next batch is cut and one coroutine per clause is
\* handed to asyncio.gather
BatchStart ==
    /\ batch.pc = "next"
    /\ batch.first < Len(batch.clauses)
    /\ batch' = [batch EXCEPT
                    !.pc = "gather",
                    !.pending = BatchPositions(batch.first),
                    !.completed = <<>>,
                    !.calls = [j \in 1..Len(batch.clauses) |->
                                  IF j \in BatchPositions(batch.first)
                                  THEN @[j] + 1 ELSE @[j]]]
    /\ UNCHANGED <<segmenterSide, adv, api, tiers, analyzer, pdf>>

\* one of the concurrent calls of analyze_single_clause finishes; gather
\* keeps its result, or the exception it raised, at the position of the call
TaskCompletes ==
    /\ batch.pc = "gather"
    /\ \E j \in batch.pending :
         batch' = [batch EXCEPT
                      !.pending = @ \ {j},
                      !.completed = Append(@, j),
                      !.results[j] = SingleClauseResult(j)]
    /\ UNCHANGED <<segmenterSide, adv, api, tiers, analyzer, pdf>>

\* a variant that takes the results in the order the calls finished
BatchCollect_completion ==
    /\ batch.pc = "gather"
    /\ batch.pending = {}
    /\ batch' = [batch EXCEPT
                    !.pc = "next",
                    !.first = @ + batch.batch_size,
                    !.analyzed_clauses =
                        @ \o [k \in 1..Len(batch.completed) |->
                                 Collected(batch.results[batch.completed[k]])]]
    /\ UNCHANGED <<segmenterSide, adv, api, tiers, analyzer, pdf>>

\* lines 469-478: gather has returned the results in the order of the
\* batch; each is appended, an exception as the fallback of its clause
BatchCollect ==
    /\ batch.pc = "gather"
    /\ batch.pending = {}
    /\ batch' = [batch EXCEPT
                    !.pc = "next",
                    !.first = @ + batch.batch_size,
                    !.analyzed_clauses =
                        @ \o [k \in 1..Cardinality(BatchPositions(batch.first)) |->
                                 Collected(batch.results[batch.first + k])]]
    /\ UNCHANGED <<segmenterSide, adv, api, tiers, analyzer, pdf>>

\* line 488
BatchReturn ==
    /\ batch.pc = "next"
    /\ batch.first >= Len(batch.clauses)
    /\ batch' = [batch EXCEPT !.pc = "done"]
    /\ UNCHANGED <<segmenterSide, adv, api, tiers, analyzer, pdf>>

NextBatch ==
    \/ BatchStart
    \/ TaskCompletes
    \/ BatchCollect
    \/ BatchReturn

SpecBatch == InitBatch /\ [][NextBatch]_vars

\* C16: whatever the batch size and the calls that raise,
\* analyze_single_clause is called exactly once per clause and the list
\* returned has one result per clause in input order: the i-th result is
\* the analysis of the i-th clause, or its fallback when the call raised.
C16_BatchOneResultPerClause ==
    batch.pc # "idle" =>
        /\ \A j \in 1..Len(batch.clauses) : batch.calls[j] <= 1
        /\ batch.pc = "done" =>
              /\ \A j \in 1..Len(batch.clauses) : batch.calls[j] = 1
              /\ Len(batch.analyzed_clauses) = Len(batch.clauses)
              /\ \A i \in 1..Len(batch.clauses) :
                    /\ batch.analyzed_clauses[i].call = i
                    /\ batch.analyzed_clauses[i].clause_id = batch.clauses[i]
                    /\ batch.analyzed_clauses[i].kind =
                           IF i \in batch.raises THEN "fallback" ELSE "analysis"

\* three clauses in batches of two, and the second call raises: its
\* fallback stands between the analyses of the first and the third clause
C16_Witness ==
    /\ batch.pc = "done"
    /\ Len(batch.clauses) = 3
    /\ batch.batch_size = 2
    /\ batch.raises = {2}
    /\ batch.analyzed_clauses[1].kind = "analysis"
    /\ batch.analyzed_clauses[2].kind = "fallback"
    /\ batch.analyzed_clauses[3].kind = "analysis"

\* the calls of analyze_single_clause that have started and not finished
InFlight == batch.pending

Started(j) == batch.calls[j] >= 1

Finished(j) == Started(j) /\ j \notin batch.pending

\* the batch, counted from 0, that holds position j of the clause list
BatchOf(j) == (j - 1) \div batch.batch_size

\* C25: at most batch_size calls of analyze_single_clause are in flight at
\* any time, and no call of a batch starts before every call of the batches
\* before it has finished, with a result or with an exception.
C25_BatchesDoNotOverlap ==
    batch.pc # "idle" =>
        /\ Cardinality(InFlight) <= batch.batch_size
        /\ \A i, j \in 1..Len(batch.clauses) :
               (BatchOf(i) < BatchOf(j) /\ Started(j)) => Finished(i)

\* the second batch is in flight, as large as batch_size allows, after a
\* first batch in which a call raised
C25_Witness ==
    /\ batch.pc = "gather"
    /\ batch.first >= batch.batch_size
    /\ batch.batch_size >= 1
    /\ Cardinality(InFlight) = batch.batch_size
    /\ 1 \in batch.raises

(***************************************************************************)
(* PDFProcessor.extract_text_with_coordinates (pdf_processor.py)           *)
(* A message is the sequence of its parts; the parts a message is built    *)
(* from by an f-string are concatenated as the code concatenates them.     *)
(***************************************************************************)
MaxPdfPages == 3

MaxPagesSetting == 2

\* the phrase of lines 101-102
MaximumAllowed == "maximum allowed"

\* "maximum allowed" in str(error), lines 101-102
MentionsLimit(msg) == \E i \in 1..Len(msg) : msg[i] = MaximumAllowed

\* what pdfplumber.open / PdfReader can raise on a file they cannot read
LibraryFaults == {"none", "corrupt", "depth"}

FaultMessage(fault) ==
    IF fault = "corrupt" THEN <<"No /Root object! - Is this really a PDF?">>
    ELSE <<MaximumAllowed, " recursion depth exceeded">>

Filenames == { <<"contract.pdf">>, <<"the ", MaximumAllowed, " term.pdf">> }

\* lines 136-139 and 352-355
PageLimitMessage(page_count, max_pages) ==
    <<"PDF has ", ToString(page_count), " pages, ", MaximumAllowed, " is ",
      ToString(max_pages)>>

\* line 410
FallbackWarning == "Extracted without coordinate information (fallback method)"

Raised(cls, msg) ==
    [kind |-> "raise", cls |-> cls, msg |-> msg,
     extraction_method |-> "", warnings |-> <<>>]

Extracted(method, warnings) ==
    [kind |-> "result", cls |-> "", msg |-> <<>>,
     extraction_method |-> method, warnings |-> warnings]

NotRun == [kind |-> "none", cls |-> "", msg |-> <<>>,
           extraction_method |-> "", warnings |-> <<>>]

\* lines 114-188
extract_with_pdfplumber(p) ==
    IF p.plumber_fault # "none"
    THEN Raised("Exception", FaultMessage(p.plumber_fault))
    ELSE IF p.plumber_pages > p.max_pages
    THEN Raised("PDFProcessingError",
                PageLimitMessage(p.plumber_pages, p.max_pages))
    ELSE Extracted("pdfplumber",
                   IF p.page_fails THEN <<"Failed to process page 1">>
                   ELSE <<>>)

\* lines 330-411
extract_with_pypdf(p) ==
    IF p.pypdf_fault # "none"
    THEN Raised("Exception", FaultMessage(p.pypdf_fault))
    ELSE IF p.pypdf_pages > p.max_pages
    THEN Raised("PDFProcessingError",
                PageLimitMessage(p.pypdf_pages, p.max_pages))
    ELSE Extracted("pypdf", <<FallbackWarning>>)

InitPdf ==
    /\ SegmenterSideIdle
    /\ adv = Idle /\ api = Idle
    /\ tiers = Idle /\ analyzer = Idle /\ batch = Idle
    /\ \E pp \in 1..MaxPdfPages, rp \in 1..MaxPdfPages,
          mp \in 1..MaxPagesSetting,
          pf \in LibraryFaults, rf \in LibraryFaults,
          fn \in Filenames, pgf \in BOOLEAN :
          pdf = [pc |-> "start",
                 filename |-> fn,
                 max_pages |-> mp,
                 plumber_pages |-> pp,
                 pypdf_pages |-> rp,
                 plumber_fault |-> pf,
                 pypdf_fault |-> rf,
                 page_fails |-> pgf,
                 attempts |-> <<>>,
                 plumber_error |-> NotRun,
                 pypdf_error |-> NotRun,
                 inner |-> NotRun,
                 outcome |-> NotRun]

\* lines 75-83: pdfplumber is tried; its result is returned, its exception
\* is bound to plumber_error
TryPdfplumber ==
    /\ pdf.pc = "start"
    /\ LET r == extract_with_pdfplumber(pdf)
       IN pdf' = [pdf EXCEPT
                     !.attempts = Append(@, "pdfplumber"),
                     !.pc = IF r.kind = "result" THEN "done" ELSE "fallback",
                     !.outcome = IF r.kind = "result" THEN r ELSE @,
                     !.plumber_error = IF r.kind = "raise" THEN r ELSE @]
    /\ UNCHANGED <<segmenterSide, adv, api, tiers, analyzer, batch>>

\* lines 86-93: pypdf is tried inside the handler of plumber_error
TryPypdf ==
    /\ pdf.pc = "fallback"
    /\ LET r == extract_with_pypdf(pdf)
       IN pdf' = [pdf EXCEPT
                     !.attempts = Append(@, "pypdf"),
                     !.pc = IF r.kind = "result" THEN "done" ELSE "both_failed",
                     !.outcome = IF r.kind = "result" THEN r ELSE @,
                     !.pypdf_error = IF r.kind = "raise" THEN r ELSE @]
    /\ UNCHANGED <<segmenterSide, adv, api, tiers, analyzer, batch>>

\* lines 99-107 without the test of lines 99-103
BothFailed_generic ==
    /\ pdf.pc = "both_failed"
    /\ pdf' = [pdf EXCEPT
                  !.pc = "outer",
                  !.inner =
                      Raised("PDFProcessingError",
                             <<"Failed to extract PDF with both methods: ">>
                                 \o pdf.filename)]
    /\ UNCHANGED <<segmenterSide, adv, api, tiers, analyzer, batch>>

\* lines 99-107: the page limit error of pdfplumber is raised again when
\* both errors are page limit errors, a new PDFProcessingError otherwise
BothFailed ==
    /\ pdf.pc = "both_failed"
    /\ pdf' = [pdf EXCEPT
                  !.pc = "outer",
                  !.inner =
                      IF /\ pdf.plumber_error.cls = "PDFProcessingError"
                         /\ pdf.pypdf_error.cls = "PDFProcessingError"
                         /\ MentionsLimit(pdf.plumber_error.msg)
                         /\ MentionsLimit(pdf.pypdf_error.msg)
                      THEN pdf.plumber_error
                      ELSE Raised("PDFProcessingError",
                                  <<"Failed to extract PDF with both methods: ">>
                                      \o pdf.filename)]
    /\ UNCHANGED <<segmenterSide, adv, api, tiers, analyzer, batch>>

\* lines 109-112: the outer handler wraps whatever the inner block raised
OuterExcept ==
    /\ pdf.pc = "outer"
    /\ pdf' = [pdf EXCEPT
                  !.pc = "done",
                  !.outcome =
                      Raised("PDFProcessingError",
                             <<"PDF processing failed: ">> \o pdf.inner.msg)]
    /\ UNCHANGED <<segmenterSide, adv, api, tiers, analyzer, batch>>

NextPdf ==
    \/ TryPdfplumber
    \/ TryPypdf
    \/ BothFailed
    \/ OuterExcept

SpecPdf == InitPdf /\ [][NextPdf]_vars

\* the extractor named by an extraction_method
ExtractorOutcome(method) ==
    IF method = "pdfplumber" THEN extract_with_pdfplumber(pdf)
    ELSE extract_with_pypdf(pdf)

PageLimitFailure(r) ==
    r.kind = "raise" /\ r.cls = "PDFProcessingError" /\ MentionsLimit(r.msg)

\* C18: pdfplumber is tried first and pypdf only after pdfplumber raised;
\* a returned result names in extraction_method the extractor that
\* succeeded, "pypdf" with the fallback warning; when both extractors
\* fail a PDFProcessingError is raised, and when both failed on the page
\* limit its message still contains "maximum allowed".
C18_PdfFallbackChain ==
    pdf.pc # "idle" =>
        /\ pdf.attempts \in {<<>>, <<"pdfplumber">>, <<"pdfplumber", "pypdf">>}
        /\ Len(pdf.attempts) = 2 =>
              /\ pdf.plumber_error.kind = "raise"
              /\ extract_with_pdfplumber(pdf).kind = "raise"
        /\ (pdf.pc = "done" /\ pdf.outcome.kind = "result") =>
              /\ pdf.outcome.extraction_method \in {"pdfplumber", "pypdf"}
              /\ pdf.outcome.extraction_method = pdf.attempts[Len(pdf.attempts)]
              /\ ExtractorOutcome(pdf.outcome.extraction_method).kind = "result"
              /\ pdf.outcome.extraction_method = "pypdf" =>
                    \E i \in 1..Len(pdf.outcome.warnings) :
                        pdf.outcome.warnings[i] = FallbackWarning
        /\ (pdf.pc = "done"
              /\ extract_with_pdfplumber(pdf).kind = "raise"
              /\ extract_with_pypdf(pdf).kind = "raise") =>
              /\ pdf.outcome.kind = "raise"
              /\ pdf.outcome.cls = "PDFProcessingError"
              /\ (PageLimitFailure(extract_with_pdfplumber(pdf))
                    /\ PageLimitFailure(extract_with_pypdf(pdf))) =>
                    MentionsLimit(pdf.outcome.msg)

\* both extractors stop at the page limit of a file whose name does not
\* contain the phrase, and the error raised reports the limit
C18_Witness ==
    /\ pdf.pc = "done"
    /\ pdf.attempts = <<"pdfplumber", "pypdf">>
    /\ pdf.plumber_fault = "none" /\ pdf.pypdf_fault = "none"
    /\ pdf.plumber_pages > pdf.max_pages /\ pdf.pypdf_pages > pdf.max_pages
    /\ ~MentionsLimit(pdf.filename)
    /\ pdf.outcome.kind = "raise"
    /\ MentionsLimit(pdf.outcome.msg)

(***************************************************************************)
(* The API stores and the handlers that touch them (api/routes.py).        *)
(* The handlers are coroutines on one event loop: what a handler does      *)
(* between two awaits is one step, and at an await any other handler may   *)
(* take steps.                                                             *)
(***************************************************************************)
\* document ids: two uploads get the same id when they carry the same bytes
\* in the same second (lines 270-273)
DocIds == {"doc_a", "doc_b"}

\* number of upload requests and of delete requests
MaxUploads == 2

MaxDeletes == 1

\* no entry for a key of analysis_status_store
Absent == [status |-> "absent", progress |-> 0]

\* lines 117-127: the entry update_analysis_status stores
StatusUpdate(status, progress) == [status |-> status, progress |-> progress]

NoResponse == [endpoint |-> "none", document_id |-> "none", code |-> "none"]

InitApi ==
    /\ SegmenterSideIdle
    /\ adv = Idle
    /\ tiers = Idle /\ analyzer = Idle /\ batch = Idle /\ pdf = Idle
    /\ api = [pc |-> "serving",
              analysis_status_store |-> [d \in DocIds |-> Absent],
              analysis_results_store |-> [d \in DocIds |-> FALSE],
              uploads |-> <<>>,
              runs |-> <<>>,
              deletes |-> <<>>,
              deleted |-> [d \in DocIds |-> FALSE],
              response |-> NoResponse]

\* lines 276-281 of upload_and_analyze_contract: the id is computed and the
\* status "pending" is stored; the handler then awaits the notification
UploadPending ==
    /\ api.pc = "serving"
    /\ Len(api.uploads) < MaxUploads
    /\ \E d \in DocIds :
         api' = [api EXCEPT
                    !.analysis_status_store[d] = StatusUpdate("pending", 0),
                    !.uploads = Append(@, [document_id |-> d, pc |-> "notify"]),
                    !.deletes = [k \in 1..Len(@) |->
                                    IF @[k].document_id = d
                                    THEN [@[k] EXCEPT !.uploaded_since = TRUE]
                                    ELSE @[k]],
                    !.deleted[d] = FALSE]
    /\ UNCHANGED <<segmenterSide, adv, tiers, analyzer, batch, pdf>>

\* lines 284-306: the provider is checked, the background task is added and
\* the handler returns; with an unknown provider it answers 400 instead
UploadReturn ==
    /\ api.pc = "serving"
    /\ \E u \in 1..Len(api.uploads), provider_ok \in BOOLEAN :
         /\ api.uploads[u].pc = "notify"
         /\ api' = [api EXCEPT
                       !.uploads[u].pc = "returned",
                       !.runs = IF provider_ok
                                THEN Append(@, [document_id |->
                                                    api.uploads[u].document_id,
                                                pc |-> "queued"])
                                ELSE @]
    /\ UNCHANGED <<segmenterSide, adv, tiers, analyzer, batch, pdf>>

\* the stages of process_contract_analysis and the progress stored when a
\* stage begins (lines 149-194)
RunStages == <<"queued", "pdf", "segment", "summary", "llm">>

StageProgress(stage) ==
    CASE stage = "pdf" -> 10
      [] stage = "segment" -> 30
      [] stage = "summary" -> 50
      [] stage = "llm" -> 70

\* lines 149-194: the awaited stage has returned; the status of the next
\* stage is stored and the run awaits that stage
RunAdvance ==
    /\ api.pc = "serving"
    /\ \E r \in 1..Len(api.runs), k \in 1..(Len(RunStages) - 1) :
         /\ api.runs[r].pc = RunStages[k]
         /\ api' = [api EXCEPT
                       !.runs[r].pc = RunStages[k + 1],
                       !.analysis_status_store[api.runs[r].document_id] =
                           StatusUpdate("processing",
                                        StageProgress(RunStages[k + 1]))]
    /\ UNCHANGED <<segmenterSide, adv, tiers, analyzer, batch, pdf>>

\* lines 206-214: the analysis has returned; the result and the status
\* "completed" are stored without an await in between
RunComplete ==
    /\ api.pc = "serving"
    /\ \E r \in 1..Len(api.runs) :
         /\ api.runs[r].pc = "llm"
         /\ api' = [api EXCEPT
                       !.runs[r].pc = "done",
                       !.analysis_results_store[api.runs[r].document_id] = TRUE,
                       !.analysis_status_store[api.runs[r].document_id] =
                           StatusUpdate("completed", 100)]
    /\ UNCHANGED <<segmenterSide, adv, tiers, analyzer, batch, pdf>>

\* lines 218-226: an awaited stage has raised; the status "failed" is stored
RunFail ==
    /\ api.pc = "serving"
    /\ \E r \in 1..Len(api.runs) :
         /\ api.runs[r].pc \in {"pdf", "segment", "summary", "llm"}
         /\ api' = [api EXCEPT
                       !.runs[r].pc = "done",
                       !.analysis_status_store[api.runs[r].document_id] =
                           StatusUpdate("failed", 0)]
    /\ UNCHANGED <<segmenterSide, adv, tiers, analyzer, batch, pdf>>

\* a variant of lines 397-401 that removes the result and leaves the status
DeleteStores_resultonly ==
    /\ api.pc = "serving"
    /\ Len(api.deletes) < MaxDeletes
    /\ \E d \in DocIds :
         api' = [api EXCEPT
                    !.analysis_results_store[d] = FALSE,
                    !.deletes = Append(@, [document_id |-> d, pc |-> "closing",
                                           uploaded_since |-> FALSE])]
    /\ UNCHANGED <<segmenterSide, adv, tiers, analyzer, batch, pdf>>

\* lines 397-401 of delete_analysis: both entries are removed; the handler
\* then awaits the closing of the WebSocket connections
DeleteStores ==
    /\ api.pc = "serving"
    /\ Len(api.deletes) < MaxDeletes
    /\ \E d \in DocIds :
         api' = [api EXCEPT
                    !.analysis_status_store[d] = Absent,
                    !.analysis_results_store[d] = FALSE,
                    !.deletes = Append(@, [document_id |-> d, pc |-> "closing",
                                           uploaded_since |-> FALSE])]
    /\ UNCHANGED <<segmenterSide, adv, tiers, analyzer, batch, pdf>>

\* lines 404-415: delete_analysis returns; `deleted` records that a delete
\* of the document has returned and that the document was not uploaded
\* since that delete removed its entries
DeleteReturn ==
    /\ api.pc = "serving"
    /\ \E k \in 1..Len(api.deletes) :
         /\ api.deletes[k].pc = "closing"
         /\ api' = [api EXCEPT
                       !.deletes[k].pc = "returned",
                       !.deleted[api.deletes[k].document_id] =
                           ~api.deletes[k].uploaded_since]
    /\ UNCHANGED <<segmenterSide, adv, tiers, analyzer, batch, pdf>>

\* lines 318-343: the answer of get_analysis_status
get_analysis_status(d) ==
    IF api.analysis_status_store[d] = Absent THEN "404" ELSE "200"

\* lines 346-382: the answer of get_analysis_result
get_analysis_result(d) ==
    IF api.analysis_status_store[d] = Absent THEN "404"
    ELSE IF api.analysis_status_store[d].status # "completed" THEN "202"
    ELSE IF ~api.analysis_results_store[d] THEN "500"
    ELSE "200"

GetStatus ==
    /\ api.pc = "serving"
    /\ \E d \in DocIds :
         api' = [api EXCEPT
                    !.response = [endpoint |-> "status", document_id |-> d,
                                  code |-> get_analysis_status(d)]]
    /\ UNCHANGED <<segmenterSide, adv, tiers, analyzer, batch, pdf>>

GetResult ==
    /\ api.pc = "serving"
    /\ \E d \in DocIds :
         api' = [api EXCEPT
                    !.response = [endpoint |-> "result", document_id |-> d,
                                  code |-> get_analysis_result(d)]]
    /\ UNCHANGED <<segmenterSide, adv, tiers, analyzer, batch, pdf>>

NextApi ==
    \/ UploadPending
    \/ UploadReturn
    \/ RunAdvance
    \/ RunComplete
    \/ RunFail
    \/ DeleteStores
    \/ DeleteReturn
    \/ GetStatus
    \/ GetResult

SpecApi == InitApi /\ [][NextApi]_vars

\* C29: under every interleaving of uploads, background runs and deletes, a
\* document whose stored status is "completed" has a result in
\* analysis_results_store, so get_analysis_result does not answer 500 for
\* it, and no request for a result was answered 500; "completed" is stored
\* with progress 100 and "failed" with progress 0.
C29_CompletedHasResult ==
    api.pc # "idle" =>
        /\ \A d \in DocIds :
              /\ api.analysis_status_store[d].status = "completed" =>
                    /\ api.analysis_results_store[d]
                    /\ get_analysis_result(d) = "200"
                    /\ api.analysis_status_store[d].progress = 100
              /\ api.analysis_status_store[d].status = "failed" =>
                    api.analysis_status_store[d].progress = 0
        /\ api.response.code # "500"

\* a run that was in progress when its document was deleted has completed,
\* and the result has been served
C29_Witness ==
    /\ api.pc = "serving"
    /\ \E d \in DocIds :
         /\ api.deleted[d]
         /\ api.analysis_status_store[d].status = "completed"
         /\ api.response = [endpoint |-> "result", document_id |-> d,
                            code |-> "200"]

\* C30: once delete_analysis(document_id) has returned and until the
\* document is uploaded again, the document has no entry in
\* analysis_status_store or analysis_results_store and get_analysis_status
\* answers 404, also when a background run of the document was in progress
\* at the time of the delete.
C30_DeletedStaysDeleted ==
    api.pc # "idle" =>
        \A d \in DocIds :
            api.deleted[d] =>
                /\ api.analysis_status_store[d] = Absent
                /\ ~api.analysis_results_store[d]
                /\ get_analysis_status(d) = "404"

(***************************************************************************)
(* Header detection and sectioning (advanced_clause_extractor.py)          *)
(***************************************************************************)
\* str.isalpha() and str.isupper() of one character, restricted to the
\* letters that occur in the texts of the model
IsAlpha(c) == c \in {"a", "b", "B"}
IsUpper(c) == c \in {"B"}

\* str.lower()
lower(w) == [k \in 1..Len(w) |-> IF w[k] = "B" THEN "b" ELSE w[k]]

\* _PT_STOPWORDS
PT_STOPWORDS ==
    {<<"d", "e">>, <<"d", "a">>, <<"d", "o">>, <<"d", "a", "s">>,
     <<"d", "o", "s">>, <<"e">>, <<"a">>, <<"o">>, <<"a", "s">>, <<"o", "s">>,
     <<"p", "a", "r", "a">>, <<"p", "o", "r">>, <<"e", "m">>, <<"n", "o">>,
     <<"n", "a">>, <<"n", "o", "s">>, <<"n", "a", "s">>, <<"u", "m">>,
     <<"u", "m", "a">>}

\* [-•] and [-–—:] of the header patterns
IsBullet(c) == c \in {"-"}
IsHeaderDash(c) == c \in {"-", ":"}

\* str.endswith((".", ";", ","))
EndsWithPunctuation(title) ==
    title # <<>> /\ title[Len(title)] \in {".", ";", ","}

RECURSIVE WordsFrom(_, _)
\* the non-empty fields of re.split(r"\s+", s) from offset p on, which are
\* also the fields of s.split()
WordsFrom(t, p) ==
    LET a == SkipWs(t, p)
    IN  IF a >= Len(t) THEN <<>>
        ELSE LET e == FirstIdx(LAMBDA i : IsWs(At(t, i)), a, Len(t))
             IN  <<Slice(t, a, e)>> \o WordsFrom(t, e)

Words(t) == WordsFrom(t, 0)

\* the literals 0.55 and 0.7 of _is_probable_header
UpperThreshold == FDiv(FFromInt(55), FFromInt(100))
TitlecaseThreshold == FDiv(FFromInt(7), FFromInt(10))

\* _upper_ratio(s)
upper_ratio(s) ==
    LET letters == {k \in 1..Len(s) : IsAlpha(s[k])}
        uppers == {k \in letters : IsUpper(s[k])}
    IN  IF letters = {} THEN FZero
        ELSE FDiv(FFromInt(Cardinality(uppers)), FFromInt(Cardinality(letters)))

\* _titlecase_ratio(s)
titlecase_ratio(s) ==
    Let(Words(s), LAMBDA words :
        LET good == {k \in 1..Len(words) :
                        lower(words[k]) \in PT_STOPWORDS \/ IsUpper(words[k][1])}
        IN  IF words = <<>> THEN FZero
            ELSE FDiv(FFromInt(Cardinality(good)), FFromInt(Len(words))))

\* the two casing tests of _is_probable_header
looks_upper(title) == FLeq(UpperThreshold, upper_ratio(title))
looks_titlecase(title) ==
    FLeq(TitlecaseThreshold, titlecase_ratio(title)) /\ Len(Words(title)) <= 10

\* re.search(r"[.:;!?]\s*$", prev_line.strip())
EndsSentence(stripped) ==
    stripped # <<>> /\ stripped[Len(stripped)] \in {".", ":", ";", "!", "?"}

MaxTitleLen == 90

\* _is_probable_header(line, prev_line, next_line, title)
is_probable_header(line, prev_line, next_line, title) ==
    IF Len(title) > MaxTitleLen THEN FALSE
    ELSE IF EndsWithPunctuation(title) THEN FALSE
    ELSE LET spaced_block == strip(prev_line) = <<>> \/ strip(next_line) = <<>>
         IN  Let(looks_upper(title), LAMBDA upper :
             Let(looks_titlecase(title), LAMBDA titlecase :
                 IF spaced_block \/ upper \/ titlecase
                 THEN IF /\ prev_line # <<>>
                         /\ strip(prev_line) # <<>>
                         /\ ~EndsSentence(strip(prev_line))
                         /\ ~(upper \/ titlecase)
                      THEN FALSE
                      ELSE TRUE
                 ELSE FALSE))

\* ^ under re.MULTILINE
LineStart(t, p) == p = 0 \/ At(t, p - 1) = NL

\* offset of the first "\n" at or after p (len if none): the end of .*
LineEnd(t, p) == FirstIdx(LAMBDA i : At(t, i) = NL, p, Len(t))

\* a match of one of the header patterns
HeaderMatch(start_pos, end_pos, num, title) ==
    [start_pos |-> start_pos, end_pos |-> end_pos, num |-> num, title |-> title]

\* \s+(?P<title>.{lo,hi})$ after the white space t[from:w], w the first
\* offset that is not white space: the offset where the title starts.  The
\* white space is greedy and gives characters back one at a time until the
\* rest of the line has a length the title allows; 0 when no split does
TitleStart(t, from, w, hi) ==
    LET ok(s) == LineEnd(t, s) - s >= 1 /\ LineEnd(t, s) - s <= hi
        k == FirstIdx(LAMBDA j : ok(w - j), 0, w - from)
    IN  IF k < w - from THEN w - k ELSE 0

MaxTopTitle == 100

\* _TOP_HEADER_RE:
\*   (?m)^\s*[-•]?\s*(?P<num>\d{1,2})\s*[-–—:]?\s+(?P<title>.{1,100})$
\* matched at offset p: <<match>>, or <<>> when it does not match there
top_header_match_at(t, p) ==
    IF ~LineStart(t, p) THEN <<>>
    ELSE
    LET a == SkipWs(t, p)
        b == IF a < Len(t) /\ IsBullet(At(t, a)) THEN a + 1 ELSE a
        c == SkipWs(t, b)
        n == SkipDigits(t, c)
    IN  IF n = c \/ n - c > 2 THEN <<>>
        ELSE
        LET w  == SkipWs(t, n)
            d  == w + 1
            w2 == SkipWs(t, d)
            withDash == IF w < Len(t) /\ IsHeaderDash(At(t, w))
                        THEN TitleStart(t, d, w2, MaxTopTitle) ELSE 0
            s  == IF withDash # 0 THEN withDash
                  ELSE TitleStart(t, n, w, MaxTopTitle)
        IN  IF s = 0 THEN <<>>
            ELSE <<HeaderMatch(p, LineEnd(t, s), Slice(t, c, n),
                               Slice(t, s, LineEnd(t, s)))>>

RECURSIVE SubNumberEnd(_, _)
\* end of (?:\d+\.)+\d+ for a number whose first digit run ends at p, or 0
\* when fewer than two digit runs stand there.  A digit run followed by "."
\* and a digit continues the number; the pattern then requires white space
SubNumberEnd(t, p) ==
    IF p + 1 < Len(t) /\ At(t, p) = "." /\ IsDigit(At(t, p + 1))
    THEN Let(SkipDigits(t, p + 1), LAMBDA e :
         Let(SubNumberEnd(t, e), LAMBDA rest :
             IF rest # 0 THEN rest ELSE e))
    ELSE 0

\* _SUB_HEADER_RE:  (?m)^\s*[-•]?\s*(?P<num>(?:\d+\.)+\d+)\s+(?P<title>.+)$
\* matched at offset p: <<match>>, or <<>> when it does not match there
sub_header_match_at(t, p) ==
    IF ~LineStart(t, p) THEN <<>>
    ELSE
    LET a == SkipWs(t, p)
        b == IF a < Len(t) /\ IsBullet(At(t, a)) THEN a + 1 ELSE a
        c == SkipWs(t, b)
        n == IF SkipDigits(t, c) = c THEN 0 ELSE SubNumberEnd(t, SkipDigits(t, c))
    IN  IF n = 0 THEN <<>>
        ELSE
        LET w == SkipWs(t, n)
            s == TitleStart(t, n, w, Len(t))
        IN  IF s = 0 THEN <<>>
            ELSE <<HeaderMatch(p, LineEnd(t, s), Slice(t, c, n),
                               Slice(t, s, LineEnd(t, s)))>>

\* bisect.bisect_right(offsets, start) - 1 for the offsets find_top_headers
\* computes (line k begins at the summed lengths, plus one each, of the
\* lines before it); lines are counted from 1 here
LineIndex(lines, start) ==
    Cardinality({k \in 1..Len(lines) : SumLineLens(lines, k - 1) <= start})

\* what find_top_headers does with one match of _TOP_HEADER_RE: the lines
\* it looks up, the stripped groups and the verdict of _is_probable_header
top_candidate(lines, m) ==
    Let(LineIndex(lines, m.start_pos), LAMBDA idx :
    Let(strip(m.title), LAMBDA title :
    LET prev_line == IF idx - 1 >= 1 THEN lines[idx - 1] ELSE <<>>
        this_line == lines[idx]
        next_line == IF idx + 1 <= Len(lines) THEN lines[idx + 1] ELSE <<>>
    IN  [start |-> m.start_pos, num |-> strip(m.num), title |-> title,
         line_index |-> idx, line_count |-> Len(lines),
         this_line |-> this_line, prev_line |-> prev_line,
         next_line |-> next_line,
         accepted |-> is_probable_header(this_line, prev_line, next_line, title)]))

\* the matches of _TOP_HEADER_RE in the text, as find_top_headers sees them
top_candidates(text) ==
    Let(splitlines(text), LAMBDA lines :
    Let(finditer(top_header_match_at, text, 0), LAMBDA ms :
        [k \in 1..Len(ms) |-> top_candidate(lines, ms[k])]))

RECURSIVE SortHeaders(_, _)
\* headers.sort(key=lambda x: x[0]) of the first n headers (stable)
SortHeaders(headers, n) ==
    IF n = 0 THEN <<>>
    ELSE Let(SortHeaders(headers, n - 1), LAMBDA sorted :
         Let(FirstIdx(LAMBDA i : headers[n][1] < sorted[i][1], 1, Len(sorted) + 1),
             LAMBDA at :
             SubSeq(sorted, 1, at - 1) \o <<headers[n]>>
             \o SubSeq(sorted, at, Len(sorted))))

\* find_top_headers(text): (position, number, title) of the accepted matches
find_top_headers(text) ==
    Let(SelectSeq(top_candidates(text), LAMBDA c : c.accepted), LAMBDA kept :
    Let([k \in 1..Len(kept) |-> <<kept[k].start, kept[k].num, kept[k].title>>],
        LAMBDA headers : SortHeaders(headers, Len(headers))))

\* find_sub_headers(text)
find_sub_headers(text) ==
    Let(SelectSeq(finditer(sub_header_match_at, text, 0),
                  LAMBDA m : ~EndsWithPunctuation(strip(m.title))), LAMBDA kept :
    Let([k \in 1..Len(kept) |->
            <<kept[k].start_pos, strip(kept[k].num), strip(kept[k].title)>>],
        LAMBDA headers : SortHeaders(headers, Len(headers))))

\* Secao(number, title, text, start, end)
Secao(number, title, text, start, end) ==
    [number |-> number, title |-> title, text |-> text,
     start |-> start, end |-> end]

\* a variant that ends every section at the end of the text
SectionEnd_text(text, headers, i) == Len(text)

\* headers[i + 1][0] if i + 1 < len(headers) else len(text), for the i-th
\* header counted from 1
SectionEnd(text, headers, i) ==
    IF i + 1 <= Len(headers) THEN headers[i + 1][1] ELSE Len(text)

\* segment_sections(text, headers)
segment_sections(text, headers) ==
    IF headers = <<>> THEN <<>>
    ELSE [i \in 1..Len(headers) |->
             LET start == headers[i][1]
                 end == SectionEnd(text, headers, i)
             IN  Secao(headers[i][2], headers[i][3],
                       strip(Slice(text, start, end)), start, end)]

\* AdvancedClauseExtractor._generate_clause_id; document_id and clause_type
\* are one token each of the identifier string
advanced_generate_clause_id(text, number, doc_id, clause_type) ==
    LET content_sample == strip(Slice(text, 0, SampleLen))
        id_string == <<doc_id, "_", clause_type, "_">> \o number
                     \o <<"_">> \o content_sample
    IN  <<"advanced_", clause_type, "_">> \o Md5Hex(id_string)

\* the longest part of a section title that the clause title keeps
TitleKeep == 50

\* AdvancedClauseExtractor._convert_secao_to_clause; start and end record
\* the section the clause was made from
convert_secao_to_clause(secao, doc_id, estimated_pages, clause_type) ==
    [clause_id |-> advanced_generate_clause_id(secao.text, secao.number,
                                               doc_id, clause_type),
     text |-> secao.text,
     coordinates |-> estimate_coordinates(secao.start, secao.end, estimated_pages),
     title |-> secao.number \o <<".", SP>> \o Slice(secao.title, 0, TitleKeep)
               \o (IF Len(secao.title) > TitleKeep THEN <<".", ".", ".">> ELSE <<>>),
     level |-> Len(split(secao.number, ".")),
     clause_number |-> secao.number,
     clause_type |-> clause_type,
     start |-> secao.start, end |-> secao.end]

RECURSIVE SortByTop(_, _)
\* clauses.sort(key=lambda c: c.coordinates.top) of the first n clauses:
\* a stable sort on the float key
SortByTop(cs, n) ==
    IF n = 0 THEN <<>>
    ELSE Let(SortByTop(cs, n - 1), LAMBDA sorted :
         Let(FirstIdx(LAMBDA i : FLess(cs[n].coordinates.top,
                                       sorted[i].coordinates.top),
                      1, Len(sorted) + 1), LAMBDA at :
             SubSeq(sorted, 1, at - 1) \o <<cs[n]>>
             \o SubSeq(sorted, at, Len(sorted))))

\* lines 254-271: the top-level sections, then the sub-clause sections
ConvertSections(top, sub, doc_id, estimated_pages) ==
    [k \in 1..Len(top) |->
        convert_secao_to_clause(top[k], doc_id, estimated_pages, "main")]
    \o [k \in 1..Len(sub) |->
        convert_secao_to_clause(sub[k], doc_id, estimated_pages, "sub")]

(***************************************************************************)
(* segment_sections on an arbitrary text and sorted header list            *)
(***************************************************************************)
\* length of the texts and of the header lists handed to segment_sections
MaxSecLen == 3
MaxHeaders == 3

SecAlphabet == {"b", SP}

SecTexts == UNION {[1..k -> SecAlphabet] : k \in 0..MaxSecLen}

\* the header lists for a text: positions inside the text, in ascending
\* order, each with a number and a title
SortedHeaders(text) ==
    LET positions == UNION {[1..k -> 0..Len(text)] : k \in 0..MaxHeaders}
        sorted == {ps \in positions : \A i \in 1..Len(ps) - 1 : ps[i] <= ps[i + 1]}
    IN  {[i \in 1..Len(ps) |-> <<ps[i], <<"1">>, <<"B">> >>] : ps \in sorted}

InitSections ==
    /\ SegmenterSideIdle
    /\ tiers = Idle /\ analyzer = Idle /\ batch = Idle /\ pdf = Idle
    /\ api = Idle
    /\ \E text \in SecTexts : \E headers \in SortedHeaders(text) :
          adv = [pc |-> "segment_call", text |-> text, headers |-> headers,
                 sections |-> <<>>]

\* one call of segment_sections(text, headers)
SegmentSections ==
    /\ adv.pc = "segment_call"
    /\ adv' = [adv EXCEPT !.pc = "segment_done",
                          !.sections = segment_sections(adv.text, adv.headers)]
    /\ UNCHANGED <<segmenterSide, tiers, analyzer, batch, pdf, api>>

NextSections == SegmentSections

SpecSections == InitSections /\ [][NextSections]_vars

\* C22: for a header list sorted by position, segment_sections returns one
\* section per header in the same order; section i starts at header i and
\* ends at header i+1, the last one at len(text); its text is the stripped
\* slice; consecutive sections are contiguous, any two are disjoint, none
\* begins before the first header, and no header gives no section
C22_SectionsFollowHeaders ==
    adv.pc = "segment_done" =>
        LET hs == adv.headers
            ss == adv.sections
        IN  /\ Len(ss) = Len(hs)
            /\ \A i \in 1..Len(ss) :
                  /\ ss[i].start = hs[i][1]
                  /\ ss[i].number = hs[i][2]
                  /\ ss[i].title = hs[i][3]
                  /\ ss[i].end = IF i < Len(hs) THEN hs[i + 1][1] ELSE Len(adv.text)
                  /\ ss[i].text = strip(Slice(adv.text, ss[i].start, ss[i].end))
                  /\ ss[i].start >= hs[1][1]
            /\ \A i \in 1..Len(ss) - 1 : ss[i].end = ss[i + 1].start
            /\ \A i, j \in 1..Len(ss) :
                  i < j => {k \in ss[i].start..ss[i].end - 1 :
                               ss[j].start <= k /\ k < ss[j].end} = {}
            /\ (hs = <<>> => ss = <<>>)

\* a call with text before the first header and two headers apart has
\* returned: two sections, the first one not empty
C22_Witness ==
    /\ adv.pc = "segment_done"
    /\ Len(adv.sections) >= 2
    /\ adv.headers[1][1] > 0
    /\ adv.sections[1].start < adv.sections[1].end
    /\ adv.sections[2].start < adv.sections[2].end

(***************************************************************************)
(* AdvancedClauseExtractor.extract_clauses_from_text                       *)
(***************************************************************************)
\* number of pieces of a text, and the largest page count of a call
MaxAdvPieces == 4
MaxAdvPages == 2

TopLine == <<"1", SP, "B", NL>>
SubLine == <<"1", ".", "1", SP, "b", NL>>
LowerLine == <<"1", SP, "b", NL>>

AdvPieces ==
    {<<"1">>, <<".">>, <<SP>>, <<NL>>, <<"b">>, <<"B">>,
     TopLine, SubLine, LowerLine}

AdvTexts ==
    UNION {{Flatten(ps, k) : ps \in [1..k -> AdvPieces]} : k \in 0..MaxAdvPieces}

\* estimated_pages is first read by the conversion, where it is drawn; it
\* holds the default of the parameter until then
InitAdvanced ==
    /\ SegmenterSideIdle
    /\ tiers = Idle /\ analyzer = Idle /\ batch = Idle /\ pdf = Idle
    /\ api = Idle
    /\ \E text \in AdvTexts :
          adv = [pc |-> "normalize", text |-> text, document_id |-> "doc1",
                 estimated_pages |-> 1, normalized_text |-> <<>>,
                 candidates |-> <<>>, top |-> <<>>, sub |-> <<>>,
                 clauses |-> <<>>]

\* line 244
AdvNormalize ==
    /\ adv.pc = "normalize"
    /\ adv' = [adv EXCEPT !.pc = "top",
                          !.normalized_text = normalize_text(adv.text)]
    /\ UNCHANGED <<segmenterSide, tiers, analyzer, batch, pdf, api>>

\* lines 306-308: find_top_headers and segment_sections; candidates keeps
\* what find_top_headers handed to _is_probable_header and got back
AdvTopLevel ==
    /\ adv.pc = "top"
    /\ adv' = Let(find_top_headers(adv.normalized_text), LAMBDA top_headers :
              [adv EXCEPT !.pc = "sub",
                  !.candidates = top_candidates(adv.normalized_text),
                  !.top = segment_sections(adv.normalized_text, top_headers)])
    /\ UNCHANGED <<segmenterSide, tiers, analyzer, batch, pdf, api>>

\* lines 310-312: find_sub_headers and segment_sections
AdvSubclauses ==
    /\ adv.pc = "sub"
    /\ adv' = Let(find_sub_headers(adv.normalized_text), LAMBDA sub_headers :
              [adv EXCEPT !.pc = "convert",
                  !.sub = segment_sections(adv.normalized_text, sub_headers)])
    /\ UNCHANGED <<segmenterSide, tiers, analyzer, batch, pdf, api>>

\* lines 253-279: the conversion of the sections, the sort and the return
AdvConvert ==
    /\ adv.pc = "convert"
    /\ \E estimated_pages \in 1..MaxAdvPages :
          adv' = Let(ConvertSections(adv.top, adv.sub, adv.document_id,
                                     estimated_pages), LAMBDA cs :
                     [adv EXCEPT !.pc = "returned",
                                 !.estimated_pages = estimated_pages,
                                 !.clauses = SortByTop(cs, Len(cs))])
    /\ UNCHANGED <<segmenterSide, tiers, analyzer, batch, pdf, api>>

NextAdvanced == AdvNormalize \/ AdvTopLevel \/ AdvSubclauses \/ AdvConvert

SpecAdvanced == InitAdvanced /\ [][NextAdvanced]_vars

\* the reject rules of _is_probable_header
PassesRejectRules(title) ==
    Len(title) <= MaxTitleLen /\ ~EndsWithPunctuation(title)

\* C21: _is_probable_header accepts every candidate that passes the reject
\* rules and has a blank line right before or right after it (a line of the
\* text, not the missing neighbour of the first or last line), whatever the
\* casing of the title and the other neighbour; and it accepts every such
\* candidate whose title is at least 55% uppercase letters
C21_IsolatedOrUpperAccepted ==
    adv.pc \in {"sub", "convert", "returned"} =>
        \A k \in 1..Len(adv.candidates) :
            LET c == adv.candidates[k]
                blank_before == c.line_index > 1 /\ strip(c.prev_line) = <<>>
                blank_after == c.line_index < c.line_count
                               /\ strip(c.next_line) = <<>>
            IN  PassesRejectRules(c.title)
                /\ (blank_before \/ blank_after \/ looks_upper(c.title))
                => c.accepted

\* C23: the clauses returned (top-level and sub-clause sections together)
\* have pairwise non-overlapping source spans [start, end)
C23_SpansDoNotOverlap ==
    adv.pc = "returned" =>
        \A i, j \in 1..Len(adv.clauses) :
            i # j => \/ adv.clauses[i].end <= adv.clauses[j].start
                     \/ adv.clauses[j].end <= adv.clauses[i].start

\* C24: the clauses are returned in the order of their position in the
\* text: of two clauses, the one whose section starts at the smaller offset
\* comes first, for every page count >= 1
C24_SortedByPosition ==
    adv.pc = "returned" =>
        \A i, j \in 1..Len(adv.clauses) :
            adv.clauses[i].start < adv.clauses[j].start => i < j
====
